---- MODULE Spec2Model ----
(***************************************************************************)
(* A model of agent.rs: the protocol classifier (agent-core/protocol.rs),  *)
(* the conversation state (agent-core/agent.rs), the guardrail chain       *)
(* (agent-core/guardrail.rs) and the orchestration loop run_agent          *)
(* (agent-native/main.rs).                                                 *)
(*                                                                         *)
(* Texts.  A Rust String is modelled by what the code observes of it:      *)
(*   lines  - its lines, each the sequence of its whitespace-separated     *)
(*            words (str::lines, str::split_whitespace, str::trim);        *)
(*   pad    - whether it carries leading/trailing whitespace (str::trim);  *)
(*   json   - what serde_json::from_str makes of the trimmed text:         *)
(*            "invalid", "object" or "other" (a non-object JSON value);    *)
(*   fields - for an object, its members as [k, t, s, items] records.      *)
(* Byte lengths are computed from the words.                               *)
(***************************************************************************)
EXTENDS Integers, Sequences, FiniteSets, TLC

(* ------------------------------ bounds --------------------------------- *)

\* largest value of --max-iterations explored
MaxIterations == 2

\* longest guardrail chain built by GuardrailChain::add
MaxGuards == 3

\* longest history explored when the AgentState operations are applied freely
MaxHistory == 3

(* ------------------------------ texts ---------------------------------- *)

NoFields == {}

PlainText(ls) == [pad |-> FALSE, lines |-> ls, json |-> "invalid", fields |-> NoFields]

Str(s) == PlainText(<< <<s>> >>)

EmptyText == PlainText(<< >>)

JStr(k, s) == [k |-> k, t |-> "string", s |-> s, items |-> << >>]

JNum(k, s) == [k |-> k, t |-> "number", s |-> s, items |-> << >>]

JArr(k, xs) == [k |-> k, t |-> "array", s |-> "", items |-> xs]

JsonObject(rendering, fs) == [pad |-> FALSE, lines |-> << <<rendering>> >>, json |-> "object", fields |-> fs]

\* a JSON object whose rendering holds whitespace: its lines, word by word
JsonText(ls, fs) == [pad |-> FALSE, lines |-> ls, json |-> "object", fields |-> fs]

\* a JSON value that is not an object (a number, a string, an array)
JsonScalar(rendering) == [pad |-> FALSE, lines |-> << <<rendering>> >>, json |-> "other", fields |-> NoFields]

Padded(t) == [t EXCEPT !.pad = TRUE]

\* str::trim: surrounding whitespace (and with it blank border lines) removed
RECURSIVE DropBlankHead(_)
DropBlankHead(ls) == IF ls # << >> /\ Head(ls) = << >> THEN DropBlankHead(Tail(ls)) ELSE ls

RECURSIVE DropBlankTail(_)
DropBlankTail(ls) ==
    IF ls # << >> /\ ls[Len(ls)] = << >> THEN DropBlankTail(SubSeq(ls, 1, Len(ls) - 1)) ELSE ls

trim(t) == [t EXCEPT !.pad = FALSE, !.lines = DropBlankTail(DropBlankHead(t.lines))]

\* str::to_lowercase / eq_ignore_ascii_case on the words of the vocabulary
to_lowercase(w) ==
    CASE w = "I" -> "i"
      [] w = "Let" -> "let"
      [] w = "First," -> "first,"
      [] w = "Total" -> "total"
      [] w = "TOTAL" -> "total"
      [] w = "The" -> "the"
      [] OTHER -> w

LowerLine(l) == [i \in 1..Len(l) |-> to_lowercase(l[i])]

\* the bytes UTF-8 needs for a word beyond one per character
Utf8Extra(w) ==
    CASE w = "éé" -> 2
      [] w = "éééé" -> 4
      [] OTHER -> 0

\* str::len of a word: its length in bytes
ByteLen(w) == Len(w) + Utf8Extra(w)

\* byte length of a line: its words joined by single spaces
RECURSIVE LineLen(_)
LineLen(l) ==
    IF l = << >> THEN 0
    ELSE ByteLen(Head(l)) + (IF Len(l) > 1 THEN 1 ELSE 0) + LineLen(Tail(l))

\* str::len of a trimmed text: its lines joined by newlines
RECURSIVE LinesLen(_)
LinesLen(ls) ==
    IF ls = << >> THEN 0
    ELSE LineLen(Head(ls)) + (IF Len(ls) > 1 THEN 1 ELSE 0) + LinesLen(Tail(ls))

\* output.lines().next().unwrap_or(&output)
first_line(t) == IF t.lines = << >> THEN t.lines ELSE << t.lines[1] >>

\* serde_json::Value::get
HasKey(fs, k) == \E f \in fs : f.k = k

Get(fs, k) == CHOOSE f \in fs : f.k = k

IsStrField(fs, k) == HasKey(fs, k) /\ Get(fs, k).t = "string"

(* ---------------------- protocol.rs: the classifier -------------------- *)

\* the fixed planning markers, as lower-case word sequences
planning_phrases ==
    { <<"i", "will">>, <<"i'll">>, <<"let", "me">>, <<"let's">>, <<"we", "can">>,
      <<"we", "will">>, <<"to", "do", "this">>, <<"first,">>, <<"step", "1">>,
      <<"the", "command">>, <<"using", "the">>, <<"by", "using">> }

\* the length below which a text with a planning marker is inconclusive
InconclusiveLimit == 300

\* str::contains of a phrase in one lower-cased line
ContainsPhrase(l, ph) ==
    \E i \in 1..(Len(l) - Len(ph) + 1) : SubSeq(l, i, i + Len(ph) - 1) = ph

\* a slip: the limit itself taken as short
is_inconclusive_AtMost(output) ==
    /\ LinesLen(output.lines) <= InconclusiveLimit
    /\ \E ph \in planning_phrases :
          \E i \in 1..Len(output.lines) : ContainsPhrase(LowerLine(output.lines[i]), ph)

is_inconclusive(output) ==
    /\ LinesLen(output.lines) < InconclusiveLimit
    /\ \E ph \in planning_phrases :
          \E i \in 1..Len(output.lines) : ContainsPhrase(LowerLine(output.lines[i]), ph)

NoRequest == [name |-> "", params |-> NoFields]

\* serde_json::from_value::<ToolRequest>: `tool` must be a string; the other
\* members are flattened into params
ToolRequestOf(fs) == [name |-> Get(fs, "tool").s, params |-> {f \in fs : f.k # "tool"}]

\* the names SkillCall accepts
AvailableSkills == {"extract"}

SkillRequestOf(fs) == [name |-> Get(fs, "skill").s, params |-> {f \in fs : f.k # "skill"}]

\* the SkillCall arm of parse_model_output that process_model_output matches on
IsSkillCall(trimmed) ==
    /\ trimmed.json = "object"
    /\ IsStrField(trimmed.fields, "skill")
    /\ Get(trimmed.fields, "skill").s \in AvailableSkills

\* a change: a tool call only when the name is one execute_tool knows
IsToolCall_SupportedOnly(trimmed) ==
    /\ trimmed.json = "object" /\ HasKey(trimmed.fields, "tool")
    /\ IsStrField(trimmed.fields, "tool")
    /\ Get(trimmed.fields, "tool").s = "shell"

IsToolCall(trimmed) ==
    /\ trimmed.json # "invalid"
    /\ trimmed.json = "object" /\ HasKey(trimmed.fields, "tool")
    /\ IsStrField(trimmed.fields, "tool")

\* a slip: a `tool` member that does not deserialize is an error, not a fall-through
parse_model_output_Failing(output) ==
    LET trimmed == trim(output) IN
    IF IsToolCall(trimmed)
    THEN [kind |-> "ToolCall", request |-> ToolRequestOf(trimmed.fields), text |-> EmptyText]
    ELSE IF trimmed.json = "object" /\ HasKey(trimmed.fields, "tool")
    THEN [kind |-> "Error", request |-> NoRequest, text |-> trimmed]
    ELSE IF IsSkillCall(trimmed)
    THEN [kind |-> "SkillCall", request |-> SkillRequestOf(trimmed.fields), text |-> EmptyText]
    ELSE IF is_inconclusive(trimmed)
    THEN [kind |-> "Inconclusive", request |-> NoRequest, text |-> trimmed]
    ELSE [kind |-> "FinalAnswer", request |-> NoRequest, text |-> trimmed]

\* a slip: the planning markers looked for before the JSON is
parse_model_output_MarkersFirst(output) ==
    LET trimmed == trim(output) IN
    IF is_inconclusive(trimmed)
    THEN [kind |-> "Inconclusive", request |-> NoRequest, text |-> trimmed]
    ELSE IF IsToolCall(trimmed)
    THEN [kind |-> "ToolCall", request |-> ToolRequestOf(trimmed.fields), text |-> EmptyText]
    ELSE IF IsSkillCall(trimmed)
    THEN [kind |-> "SkillCall", request |-> SkillRequestOf(trimmed.fields), text |-> EmptyText]
    ELSE [kind |-> "FinalAnswer", request |-> NoRequest, text |-> trimmed]

parse_model_output(output) ==
    LET trimmed == trim(output) IN
    IF IsToolCall(trimmed)
    THEN [kind |-> "ToolCall", request |-> ToolRequestOf(trimmed.fields), text |-> EmptyText]
    ELSE IF IsSkillCall(trimmed)
    THEN [kind |-> "SkillCall", request |-> SkillRequestOf(trimmed.fields), text |-> EmptyText]
    ELSE IF is_inconclusive(trimmed)
    THEN [kind |-> "Inconclusive", request |-> NoRequest, text |-> trimmed]
    ELSE [kind |-> "FinalAnswer", request |-> NoRequest, text |-> trimmed]

(* ------------------------ tool.rs: tool results ------------------------ *)

ToolResult_success(output) == [success |-> TRUE, output |-> output, error |-> {}]

\* a slip: the error text left in the output as well
ToolResult_failure_KeepsOutput(error) == [success |-> FALSE, output |-> error, error |-> {error}]

ToolResult_failure(error) == [success |-> FALSE, output |-> EmptyText, error |-> {error}]

(* ---------------------- agent.rs: conversation state ------------------- *)

AgentState_new(query) ==
    [history |-> << [role |-> "User", content |-> query] >>,
     is_complete |-> FALSE,
     final_answer |-> {}]

\* a slip: the message inserted at the head of the history
add_message_Prepend(st, role, content) ==
    [st EXCEPT !.history = <<[role |-> role, content |-> content]>> \o @]

add_message(st, role, content) ==
    [st EXCEPT !.history = Append(@, [role |-> role, content |-> content])]

\* format!("{}\n{}", prefix, t): the prefix on a line of its own
FormatLn(prefix, t) == PlainText(<<prefix>> \o t.lines)

\* format!("{} {}", prefix, t): the prefix at the head of the first line
FormatSp(prefix, t) ==
    PlainText(IF t.lines = << >> THEN <<prefix>>
              ELSE <<prefix \o t.lines[1]>> \o Tail(t.lines))

\* a slip: the final answer recorded as generated, not as parsed
process_model_output_Untrimmed(st, model_output) ==
    LET p == parse_model_output(model_output) IN
    CASE p.kind = "ToolCall" ->
           [state |-> add_message(st, "Assistant", model_output),
            decision |-> [kind |-> "InvokeTool", request |-> p.request, text |-> EmptyText]]
      [] p.kind = "SkillCall" ->
           [state |-> add_message(st, "Assistant", model_output),
            decision |-> [kind |-> "InvokeSkill", request |-> p.request, text |-> EmptyText]]
      [] p.kind = "FinalAnswer" ->
           [state |-> [add_message(st, "Assistant", model_output) EXCEPT
                          !.is_complete = TRUE, !.final_answer = {model_output}],
            decision |-> [kind |-> "Done", request |-> NoRequest, text |-> p.text]]
      [] OTHER ->
           [state |-> st,
            decision |-> [kind |-> "Inconclusive", request |-> NoRequest, text |-> p.text]]

\* a slip: the state marked complete without the answer being stored
process_model_output_NoAnswer(st, model_output) ==
    LET p == parse_model_output(model_output) IN
    CASE p.kind = "ToolCall" ->
           [state |-> add_message(st, "Assistant", model_output),
            decision |-> [kind |-> "InvokeTool", request |-> p.request, text |-> EmptyText]]
      [] p.kind = "SkillCall" ->
           [state |-> add_message(st, "Assistant", model_output),
            decision |-> [kind |-> "InvokeSkill", request |-> p.request, text |-> EmptyText]]
      [] p.kind = "FinalAnswer" ->
           [state |-> [add_message(st, "Assistant", p.text) EXCEPT !.is_complete = TRUE],
            decision |-> [kind |-> "Done", request |-> NoRequest, text |-> p.text]]
      [] OTHER ->
           [state |-> st,
            decision |-> [kind |-> "Inconclusive", request |-> NoRequest, text |-> p.text]]

\* a slip: the skill invocation not added to the history
process_model_output_SkillUnrecorded(st, model_output) ==
    LET p == parse_model_output(model_output) IN
    CASE p.kind = "ToolCall" ->
           [state |-> add_message(st, "Assistant", model_output),
            decision |-> [kind |-> "InvokeTool", request |-> p.request, text |-> EmptyText]]
      [] p.kind = "SkillCall" ->
           [state |-> st,
            decision |-> [kind |-> "InvokeSkill", request |-> p.request, text |-> EmptyText]]
      [] p.kind = "FinalAnswer" ->
           [state |-> [add_message(st, "Assistant", p.text) EXCEPT
                          !.is_complete = TRUE, !.final_answer = {p.text}],
            decision |-> [kind |-> "Done", request |-> NoRequest, text |-> p.text]]
      [] OTHER ->
           [state |-> st,
            decision |-> [kind |-> "Inconclusive", request |-> NoRequest, text |-> p.text]]

\* a slip: the state marked complete by a tool call as well
process_model_output_CompleteOnToolCall(st, model_output) ==
    LET p == parse_model_output(model_output) IN
    CASE p.kind = "ToolCall" ->
           [state |-> [add_message(st, "Assistant", model_output) EXCEPT !.is_complete = TRUE],
            decision |-> [kind |-> "InvokeTool", request |-> p.request, text |-> EmptyText]]
      [] p.kind = "SkillCall" ->
           [state |-> add_message(st, "Assistant", model_output),
            decision |-> [kind |-> "InvokeSkill", request |-> p.request, text |-> EmptyText]]
      [] p.kind = "FinalAnswer" ->
           [state |-> [add_message(st, "Assistant", p.text) EXCEPT
                          !.is_complete = TRUE, !.final_answer = {p.text}],
            decision |-> [kind |-> "Done", request |-> NoRequest, text |-> p.text]]
      [] OTHER ->
           [state |-> st,
            decision |-> [kind |-> "Inconclusive", request |-> NoRequest, text |-> p.text]]

\* a slip: the inconclusive text appended like any other output
process_model_output_InconclusiveRecorded(st, model_output) ==
    LET p == parse_model_output(model_output) IN
    CASE p.kind = "ToolCall" ->
           [state |-> add_message(st, "Assistant", model_output),
            decision |-> [kind |-> "InvokeTool", request |-> p.request, text |-> EmptyText]]
      [] p.kind = "SkillCall" ->
           [state |-> add_message(st, "Assistant", model_output),
            decision |-> [kind |-> "InvokeSkill", request |-> p.request, text |-> EmptyText]]
      [] p.kind = "FinalAnswer" ->
           [state |-> [add_message(st, "Assistant", p.text) EXCEPT
                          !.is_complete = TRUE, !.final_answer = {p.text}],
            decision |-> [kind |-> "Done", request |-> NoRequest, text |-> p.text]]
      [] OTHER ->
           [state |-> add_message(st, "Assistant", p.text),
            decision |-> [kind |-> "Inconclusive", request |-> NoRequest, text |-> p.text]]

\* process_model_output: the new state and the decision
process_model_output(st, model_output) ==
    LET p == parse_model_output(model_output) IN
    CASE p.kind = "ToolCall" ->
           [state |-> add_message(st, "Assistant", model_output),
            decision |-> [kind |-> "InvokeTool", request |-> p.request, text |-> EmptyText]]
      [] p.kind = "SkillCall" ->
           [state |-> add_message(st, "Assistant", model_output),
            decision |-> [kind |-> "InvokeSkill", request |-> p.request, text |-> EmptyText]]
      [] p.kind = "FinalAnswer" ->
           [state |-> [add_message(st, "Assistant", p.text) EXCEPT
                          !.is_complete = TRUE, !.final_answer = {p.text}],
            decision |-> [kind |-> "Done", request |-> NoRequest, text |-> p.text]]
      [] OTHER ->
           [state |-> st,
            decision |-> [kind |-> "Inconclusive", request |-> NoRequest, text |-> p.text]]

UnknownError == Str("unknown error")

\* a slip: the tool result appended with the Assistant role
apply_tool_result_AsAssistant(st, result) ==
    LET content == IF result.success
                   THEN FormatLn(<<"Tool", "output:">>, result.output)
                   ELSE FormatSp(<<"Tool", "failed:">>,
                                 IF result.error = {} THEN UnknownError
                                 ELSE CHOOSE e \in result.error : TRUE)
    IN add_message(st, "Assistant", content)

\* a slip: the error of a failed result left out of the message
apply_tool_result_ErrorDropped(st, result) ==
    LET content == IF result.success
                   THEN FormatLn(<<"Tool", "output:">>, result.output)
                   ELSE FormatSp(<<"Tool", "failed:">>, UnknownError)
    IN add_message(st, "Tool", content)

apply_tool_result(st, result) ==
    LET content == IF result.success
                   THEN FormatLn(<<"Tool", "output:">>, result.output)
                   ELSE FormatSp(<<"Tool", "failed:">>,
                                 IF result.error = {} THEN UnknownError
                                 ELSE CHOOSE e \in result.error : TRUE)
    IN add_message(st, "Tool", content)

(* ------------------------ guardrail.rs: guardrails --------------------- *)

Accept == [accept |-> TRUE, panic |-> FALSE, reason |-> ""]

Reject(reason) == [accept |-> FALSE, panic |-> FALSE, reason |-> reason]

\* a validator that panics when invoked (NeverCalled of the chain's test)
Panic == [accept |-> FALSE, panic |-> TRUE, reason |-> "Should not be called"]

is_reject(r) == ~r.accept /\ ~r.panic

\* char::is_ascii_digit on every character of a word
AllDigits(w) == w \in {"1", "8", "12", "123", "456", "1234", "7079928"}

\* some character of the word is an ASCII digit
AnyDigit(w) == AllDigits(w) \/ w \in {"file1.txt", "file2.txt", "abc1"}

\* char::is_alphanumeric on some character of a word
AnyAlphanumeric(w) == w \notin {"-", "--", "---", "...", "$"}

\* str::starts_with("total") on the lower-cased first word
StartsWithTotal(w) == to_lowercase(w) \in {"total", "totals"}

\* a slip: any single line that starts with "total" and holds a digit
is_metadata_only_StartsWith(output) ==
    LET trimmed == trim(output)
        parts == IF trimmed.lines = << >> THEN << >> ELSE trimmed.lines[1]
    IN
    IF trimmed.lines = << >> THEN TRUE
    ELSE /\ Len(trimmed.lines) = 1
         /\ StartsWithTotal(parts[1])
         /\ \E i \in 1..Len(parts) : AnyDigit(parts[i])

is_metadata_only(output) ==
    LET trimmed == trim(output)
        parts == IF trimmed.lines = << >> THEN << >> ELSE trimmed.lines[1]
    IN
    IF trimmed.lines = << >> THEN TRUE
    ELSE /\ Len(trimmed.lines) = 1
         /\ StartsWithTotal(parts[1])
         /\ \E i \in 1..Len(parts) : AnyDigit(parts[i])
         /\ Len(parts) = 2
         /\ to_lowercase(parts[1]) = "total"
         /\ AllDigits(parts[2])

\* the least trimmed length has_minimal_substance accepts
MinSubstance == 3

has_minimal_substance(output) ==
    LET trimmed == trim(output) IN
    IF LinesLen(trimmed.lines) < MinSubstance THEN FALSE
    ELSE IF ~(\E i \in 1..Len(trimmed.lines) :
                 \E j \in 1..Len(trimmed.lines[i]) : AnyAlphanumeric(trimmed.lines[i][j]))
    THEN FALSE
    ELSE TRUE

ReasonEmpty == "Tool output is empty - no data returned"

ReasonMetadata == "Tool output contains only metadata (e.g. 'total' line), not actual data"

ReasonSubstance == "Tool output lacks substantive content"

\* a slip: failed outcomes validated like the others
PlausibilityGuard_validate_AnyOutcome(context) ==
    LET output == context.tool_result.output IN
    IF trim(output).lines = << >> THEN Reject(ReasonEmpty)
    ELSE IF is_metadata_only(output) THEN Reject(ReasonMetadata)
    ELSE IF ~has_minimal_substance(output) THEN Reject(ReasonSubstance)
    ELSE Accept

PlausibilityGuard_validate(context) ==
    IF ~context.tool_result.success THEN Accept
    ELSE LET output == context.tool_result.output IN
         IF trim(output).lines = << >> THEN Reject(ReasonEmpty)
         ELSE IF is_metadata_only(output) THEN Reject(ReasonMetadata)
         ELSE IF ~has_minimal_substance(output) THEN Reject(ReasonSubstance)
         ELSE Accept

\* the validators a chain can hold: the built-in guard and the two of the
\* chain's test, plus one that always accepts
GuardKinds == {"plausibility_guard", "AlwaysReject", "NeverCalled", "AlwaysAccept"}

\* SemanticGuardrail::validate, dispatched on the boxed validator
guard_validate(guard, context) ==
    CASE guard = "plausibility_guard" -> PlausibilityGuard_validate(context)
      [] guard = "AlwaysReject" -> Reject("first reject")
      [] guard = "NeverCalled" -> Panic
      [] OTHER -> Accept

GuardrailChain_new == << >>

GuardrailChain_add(guards, guard) == Append(guards, guard)

\* a slip: every validator runs, and the first rejection is returned at the end
RECURSIVE ValidateFrom_NoShortCircuit(_, _, _, _)
ValidateFrom_NoShortCircuit(guards, context, i, log) ==
    IF i > Len(guards) THEN [result |-> Accept, invoked |-> log]
    ELSE LET result == guard_validate(guards[i], context)
             rest == ValidateFrom_NoShortCircuit(guards, context, i + 1, Append(log, i))
         IN IF result.panic THEN [result |-> result, invoked |-> Append(log, i)]
            ELSE IF is_reject(result) THEN [result |-> result, invoked |-> rest.invoked]
            ELSE rest

\* the loop of GuardrailChain::validate from guard i on; `log` lists the
\* validators invoked so far
RECURSIVE ValidateFrom(_, _, _, _)
ValidateFrom(guards, context, i, log) ==
    IF i > Len(guards) THEN [result |-> Accept, invoked |-> log]
    ELSE LET result == guard_validate(guards[i], context) IN
         IF result.panic THEN [result |-> result, invoked |-> Append(log, i)]
         ELSE IF is_reject(result) THEN [result |-> result, invoked |-> Append(log, i)]
         ELSE ValidateFrom(guards, context, i + 1, Append(log, i))

GuardrailChain_validate(guards, context) == ValidateFrom(guards, context, 1, << >>)

(* ------------------- main.rs: tools, skills, reports ------------------- *)

\* what the shell tool meets when it runs: the user's answer to the
\* confirmation, whether the I/O works, the exit status and the two streams
ShellEnv(approve, io_ok, status_ok, stdout, stderr) ==
    [approve |-> approve, io_ok |-> io_ok, status_ok |-> status_ok,
     stdout |-> stdout, stderr |-> stderr]

Ok(result) == [ok |-> TRUE, err |-> "", result |-> result]

Err(msg) == [ok |-> FALSE, err |-> msg, result |-> ToolResult_failure(Str(msg))]

\* a slip: the missing command reported as a failed outcome
execute_shell_tool_MissingIsFailure(req, env) ==
    IF ~IsStrField(req.params, "command")
    THEN Ok(ToolResult_failure(Str("Missing 'command' parameter")))
    ELSE IF ~env.io_ok THEN Err("io error")
    ELSE IF ~env.approve THEN Ok(ToolResult_failure(Str("Command rejected by user")))
    ELSE IF env.status_ok THEN Ok(ToolResult_success(env.stdout))
    ELSE Ok(ToolResult_failure(IF env.stderr.lines # << >> \/ env.stderr.pad
                               THEN env.stderr
                               ELSE Str("Command exited with status 1")))

execute_shell_tool(req, env) ==
    IF ~IsStrField(req.params, "command") THEN Err("Missing 'command' parameter")
    ELSE IF ~env.io_ok THEN Err("io error")
    ELSE IF ~env.approve THEN Ok(ToolResult_failure(Str("Command rejected by user")))
    ELSE IF env.status_ok THEN Ok(ToolResult_success(env.stdout))
    ELSE Ok(ToolResult_failure(IF env.stderr.lines # << >> \/ env.stderr.pad
                               THEN env.stderr
                               ELSE Str("Command exited with status 1")))

execute_tool(req, env) ==
    IF req.name = "shell" THEN execute_shell_tool(req, env)
    ELSE Ok(ToolResult_failure(Str("Unknown tool: " \o req.name)))

\* ExtractionTarget::from_str
ExtractionTargets == {"email", "url", "date", "entity"}

\* str::contains on the (lower-cased) strings of the vocabulary
str_contains(hay, needle) ==
    \/ needle = "" \/ hay = needle
    \/ <<hay, needle>> \in { <<"contact us at hello@agent.rs", "hello@agent.rs">>,
                            <<"contact us at hello@agent.rs", "agent.rs">>,
                            <<"alice met bob at acme in paris", "alice">>,
                            <<"alice met bob at acme in paris", "bob">>,
                            <<"alice met bob at acme in paris", "acme">>,
                            <<"alice met bob at acme in paris", "paris">>,
                            <<"alice met bob at acme in paris", "alice met bob">> }

\* str::to_lowercase on the strings of the vocabulary
str_lower(x) ==
    CASE x = "Contact us at hello@agent.rs" -> "contact us at hello@agent.rs"
      [] x = "Hello@Agent.rs" -> "hello@agent.rs"
      [] x = "Alice met Bob at Acme in Paris" -> "alice met bob at acme in paris"
      [] x = "Alice met Bob" -> "alice met bob"
      [] x = "Alice" -> "alice"
      [] x = "ALICE" -> "alice"
      [] x = "Smith" -> "smith"
      [] x = "Carol" -> "carol"
      [] x = "Jones" -> "jones"
      [] x = "Carol Jones" -> "carol jones"
      [] x = "Alice Smith" -> "alice smith"
      [] x = "Acme" -> "acme"
      [] x = "Paris" -> "paris"
      [] x = "Berlin" -> "berlin"
      [] x = "EMAIL" -> "email"
      [] x = "URL" -> "url"
      [] x = "Date" -> "date"
      [] x = "Entity" -> "entity"
      [] x = "Name" -> "name"
      [] OTHER -> x

\* str::split_whitespace on the strings of the vocabulary
split_whitespace(x) ==
    CASE x = "" -> << >>
      [] x = " " -> << >>
      [] x = "Alice Smith" -> <<"Alice", "Smith">>
      [] x = "Carol Jones" -> <<"Carol", "Jones">>
      [] x = "Alice met Bob" -> <<"Alice", "met", "Bob">>
      [] OTHER -> <<x>>

SkillResult_success(output) == [success |-> TRUE, output |-> {output}, error |-> {}]

SkillResult_failure(error) == [success |-> FALSE, output |-> {}, error |-> {Str(error)}]

\* ExtractionTarget::from_str(s): the target, if s names one
ExtractionTarget_from_str(s) ==
    IF str_lower(s) \in ExtractionTargets THEN {str_lower(s)} ELSE {}

EmptyInput == "EmptyInput: the input text is empty"

InvalidTarget(t) == "InvalidTarget: unknown target '" \o t \o "'"

HallucinationDetected(val) == "HallucinationDetected: '" \o val \o "' not found in source text"

\* ExtractionInput::new(text, target).validate(): Ok(target) or Err(error)
ExtractionInput_validate(text, target) ==
    IF text = "" THEN [ok |-> FALSE, target |-> "", err |-> EmptyInput]
    ELSE IF ExtractionTarget_from_str(target) = {}
    THEN [ok |-> FALSE, target |-> "", err |-> InvalidTarget(target)]
    ELSE [ok |-> TRUE, err |-> "",
          target |-> CHOOSE t \in ExtractionTarget_from_str(target) : TRUE]

\* SkillRequest::parse_extraction_input followed by ExtractionInput::validate:
\* "" when the input is valid, the SkillError's text otherwise
InputError(req) ==
    IF ~IsStrField(req.params, "text") THEN "SchemaViolation: missing 'text' field"
    ELSE IF ~IsStrField(req.params, "target") THEN "SchemaViolation: missing 'target' field"
    ELSE ExtractionInput_validate(Get(req.params, "text").s, Get(req.params, "target").s).err

\* a slip: the target field looked for before the value is known to be an object
parse_skill_output_SchemaFirst(output, target) ==
    LET trimmed == trim(output) IN
    IF ~HasKey(trimmed.fields, target)
    THEN "SchemaViolation: output missing '" \o target \o "' field"
    ELSE IF trimmed.json = "invalid" THEN "MalformedOutput: invalid JSON"
    ELSE IF trimmed.json # "object" THEN "MalformedOutput: output must be a JSON object"
    ELSE ""

\* parse_skill_output: "" when the output parses, the SkillError's text otherwise
parse_skill_output(output, target) ==
    LET trimmed == trim(output) IN
    IF trimmed.json = "invalid" THEN "MalformedOutput: invalid JSON"
    ELSE IF trimmed.json # "object" THEN "MalformedOutput: output must be a JSON object"
    ELSE IF ~HasKey(trimmed.fields, target)
    THEN "SchemaViolation: output missing '" \o target \o "' field"
    ELSE ""

\* the strings validate_extraction_output checks for a scalar/array target
ExtractedItems(f) ==
    CASE f.t = "string" -> <<f.s>>
      [] f.t = "array" -> f.items
      [] OTHER -> << >>

\* the fields of an entity that hold extracted values, in the order checked
EntityFields == <<"people", "organizations", "locations">>

\* entity.get(field): a member of the object under "entity" is kept in the
\* fields of the output under the key "entity.<field>"
EntityKey(field) == "entity." \o field

\* the strings of the array under one field of the entity; anything but an
\* array holds none
EntityItems(output, field) ==
    IF HasKey(output.fields, EntityKey(field)) /\ Get(output.fields, EntityKey(field)).t = "array"
    THEN Get(output.fields, EntityKey(field)).items
    ELSE << >>

\* words.iter().any(|w| source_lower.contains(&w.to_lowercase()))
AnyWordFound(source_lower, s) ==
    \E k \in DOMAIN split_whitespace(s) :
       str_contains(source_lower, str_lower(split_whitespace(s)[k]))

\* the first of the elements of a sequence at the indices given: {} when
\* there is none
FirstOf(items, bad) ==
    IF bad = {} THEN {}
    ELSE {items[CHOOSE i \in bad : \A j \in bad : i <= j]}

\* a slip: the comparison made without lower-casing either side
validate_extraction_output_CaseSensitive(text, output, target) ==
    LET Whole(s) == text = s \/ s = ""
        Word(s) == \E k \in DOMAIN split_whitespace(s) : text = split_whitespace(s)[k]
        checked == IF target = "entity"
                   THEN EntityItems(output, "people") \o EntityItems(output, "organizations")
                        \o EntityItems(output, "locations")
                   ELSE ExtractedItems(Get(output.fields, target))
    IN IF ~HasKey(output.fields, target)
       THEN "SchemaViolation: output missing '" \o target \o "' field"
       ELSE IF target = "entity"
       THEN IF FirstOf(checked, {i \in DOMAIN checked : ~Word(checked[i])}) = {} THEN ""
            ELSE HallucinationDetected(CHOOSE s \in FirstOf(checked, {i \in DOMAIN checked : ~Word(checked[i])}) : TRUE)
       ELSE IF FirstOf(checked, {i \in DOMAIN checked : ~Whole(checked[i])}) = {} THEN ""
       ELSE HallucinationDetected(CHOOSE s \in FirstOf(checked, {i \in DOMAIN checked : ~Whole(checked[i])}) : TRUE)

\* a slip: the whole value looked for, as for the other targets
validate_extraction_output_WholeValue(text, output, target) ==
    LET Whole(s) == str_contains(str_lower(text), str_lower(s))
        checked == IF target = "entity"
                   THEN EntityItems(output, "people") \o EntityItems(output, "organizations")
                        \o EntityItems(output, "locations")
                   ELSE ExtractedItems(Get(output.fields, target))
    IN IF ~HasKey(output.fields, target)
       THEN "SchemaViolation: output missing '" \o target \o "' field"
       ELSE IF FirstOf(checked, {i \in DOMAIN checked : ~Whole(checked[i])}) = {} THEN ""
       ELSE HallucinationDetected(CHOOSE s \in FirstOf(checked, {i \in DOMAIN checked : ~Whole(checked[i])}) : TRUE)

\* validate_extraction_output(input, output, target): "" or the error's text
validate_extraction_output(text, output, target) ==
    LET source_lower == str_lower(text)
        Whole(s) == str_contains(source_lower, str_lower(s))
        Word(s) == AnyWordFound(source_lower, s)
    IN
    IF ~HasKey(output.fields, target)
    THEN "SchemaViolation: output missing '" \o target \o "' field"
    ELSE IF target = "entity"
    THEN LET checked == EntityItems(output, EntityFields[1])
                        \o EntityItems(output, EntityFields[2])
                        \o EntityItems(output, EntityFields[3])
         IN IF FirstOf(checked, {i \in DOMAIN checked : ~Word(checked[i])}) = {} THEN ""
            ELSE HallucinationDetected(CHOOSE s \in FirstOf(checked, {i \in DOMAIN checked : ~Word(checked[i])}) : TRUE)
    ELSE LET items == ExtractedItems(Get(output.fields, target))
         IN IF FirstOf(items, {i \in DOMAIN items : ~Whole(items[i])}) = {} THEN ""
            ELSE HallucinationDetected(CHOOSE s \in FirstOf(items, {i \in DOMAIN items : ~Whole(items[i])}) : TRUE)

\* the steps of execute_extraction_skill, in the order of its statements
Pipeline == <<"validate_input", "build_prompt", "infer", "parse_output", "validate_output">>

\* what execute_skill returns: ok is FALSE for an Err (no result then), and
\* steps are the steps of the pipeline that ran, in order
SkillReturn(ok, steps, result) ==
    [ok |-> ok, inferred |-> \E i \in DOMAIN steps : steps[i] = "infer", steps |-> steps,
     result |-> result]

\* a slip: the backend invoked before the input is looked at
execute_skill_InferFirst(req, llm) ==
    IF req.name # "extract"
    THEN SkillReturn(TRUE, << >>, SkillResult_failure("UnknownSkill: " \o req.name))
    ELSE IF ~llm.ok
    THEN SkillReturn(FALSE, <<"build_prompt", "infer">>, SkillResult_failure("inference failed"))
    ELSE IF InputError(req) # ""
    THEN SkillReturn(TRUE, <<"build_prompt", "infer", "validate_input">>,
                     SkillResult_failure(InputError(req)))
    ELSE LET target == str_lower(Get(req.params, "target").s)
             text == Get(req.params, "text").s
         IN
         IF parse_skill_output(llm.text, target) # ""
         THEN SkillReturn(TRUE, <<"build_prompt", "infer", "validate_input", "parse_output">>,
                          SkillResult_failure(parse_skill_output(llm.text, target)))
         ELSE IF validate_extraction_output(text, trim(llm.text), target) # ""
         THEN SkillReturn(TRUE, <<"build_prompt", "infer", "validate_input", "parse_output",
                                  "validate_output">>,
                          SkillResult_failure(
                              validate_extraction_output(text, trim(llm.text), target)))
         ELSE SkillReturn(TRUE, <<"build_prompt", "infer", "validate_input", "parse_output",
                                  "validate_output">>,
                          SkillResult_success(trim(llm.text)))

\* execute_skill / execute_extraction_skill.  llm is the backend's answer to
\* the extraction prompt: [ok, text].
execute_skill(req, llm) ==
    IF req.name # "extract"
    THEN SkillReturn(TRUE, << >>, SkillResult_failure("UnknownSkill: " \o req.name))
    ELSE IF InputError(req) # ""
    THEN SkillReturn(TRUE, SubSeq(Pipeline, 1, 1), SkillResult_failure(InputError(req)))
    ELSE LET target == ExtractionInput_validate(Get(req.params, "text").s,
                                                Get(req.params, "target").s).target
             text == Get(req.params, "text").s
         IN
         IF ~llm.ok
         THEN SkillReturn(FALSE, SubSeq(Pipeline, 1, 3), SkillResult_failure("inference failed"))
         ELSE IF parse_skill_output(llm.text, target) # ""
         THEN SkillReturn(TRUE, SubSeq(Pipeline, 1, 4),
                          SkillResult_failure(parse_skill_output(llm.text, target)))
         ELSE IF validate_extraction_output(text, trim(llm.text), target) # ""
         THEN SkillReturn(TRUE, Pipeline,
                          SkillResult_failure(
                              validate_extraction_output(text, trim(llm.text), target)))
         ELSE SkillReturn(TRUE, Pipeline, SkillResult_success(trim(llm.text)))

\* the Tool message run_agent appends for a skill result
SkillMessage(result) ==
    IF result.success
    THEN FormatLn(<<"Skill", "output:">>, CHOOSE o \in result.output : TRUE)
    ELSE FormatSp(<<"Skill", "failed:">>,
                  IF result.error = {} THEN UnknownError ELSE CHOOSE e \in result.error : TRUE)

NoDiag == [mode |-> "", reasons |-> << >>, texts |-> << >>]

\* a slip: the retry's reason printed in both places
report_guardrail_failure_RetryTwice(initial_reason, retry_reason) ==
    [mode |-> "guardrail_failure", reasons |-> <<retry_reason, retry_reason>>, texts |-> << >>]

\* report_guardrail_failure: the diagnostic of a double rejection
report_guardrail_failure(initial_reason, retry_reason) ==
    [mode |-> "guardrail_failure", reasons |-> <<initial_reason, retry_reason>>, texts |-> << >>]

\* a slip: the rejection reason left out of the message
report_inconclusive_after_guardrail_failure_NoReason(guardrail_reason, model_output) ==
    [mode |-> "inconclusive_after_guardrail", reasons |-> << >>,
     texts |-> <<first_line(model_output)>>]

report_inconclusive_after_guardrail_failure(guardrail_reason, model_output) ==
    [mode |-> "inconclusive_after_guardrail", reasons |-> <<guardrail_reason>>,
     texts |-> <<first_line(model_output)>>]

\* a slip: the original output printed in both places
report_inconclusive_after_retry_SameTwice(original, retry_output) ==
    [mode |-> "inconclusive_after_retry", reasons |-> << >>,
     texts |-> <<first_line(original), first_line(original)>>]

\* the diagnostic of lines 422-440: both outputs, each cut to its first line
report_inconclusive_after_retry(original, retry_output) ==
    [mode |-> "inconclusive_after_retry", reasons |-> << >>,
     texts |-> <<first_line(original), first_line(retry_output)>>]

\* the warning of line 449
report_max_iterations ==
    [mode |-> "max_iterations", reasons |-> << >>, texts |-> << >>]

\* an Err returned through `?` and out of main
report_error(msg) == [mode |-> "error", reasons |-> <<msg>>, texts |-> << >>]

(* --------------------------- bounded inputs ---------------------------- *)

Query == Str("List files")

ToolCallText == JsonObject("{\"tool\":\"shell\",\"command\":\"ls\"}",
                           {JStr("tool", "shell"), JStr("command", "ls")})

NoCommandText == JsonObject("{\"tool\":\"shell\"}", {JStr("tool", "shell")})

UnknownToolText == JsonObject("{\"tool\":\"browser\",\"command\":\"ls\"}",
                              {JStr("tool", "browser"), JStr("command", "ls")})

SkillCallText ==
    JsonObject("{\"skill\":\"extract\",\"text\":\"Contact us at hello@agent.rs\",\"target\":\"email\"}",
               {JStr("skill", "extract"), JStr("text", "Contact us at hello@agent.rs"),
                JStr("target", "email")})

AnswerText == Padded(PlainText(<< <<"The", "answer", "is", "4.">> >>))

PlanText == PlainText(<< <<"I", "will", "run", "ls", "now">> >>)

PlanText2 == PlainText(<< <<"Let", "me", "check.">>, <<"First,", "list", "files">> >>)

\* the texts the backend may generate for the agent's prompts
ModelOutputs ==
    {ToolCallText, NoCommandText, UnknownToolText, SkillCallText, AnswerText, PlanText, PlanText2}

\* a tool call one of whose fields holds a planning marker
ToolPlanText ==
    JsonText(<< <<"{\"tool\":\"shell\",\"command\":\"echo", "I", "will", "run\"}">> >>,
             {JStr("tool", "shell"), JStr("command", "echo I will run")})

NonStringToolText == JsonObject("{\"tool\":5,\"command\":\"ls\"}",
                                {JNum("tool", "5"), JStr("command", "ls")})

NonStringToolPlanText ==
    JsonText(<< <<"{\"tool\":[\"shell\"],\"note\":\"by", "using", "the", "shell\"}">> >>,
             {JArr("tool", <<"shell">>), JStr("note", "by using the shell")})

UnknownSkillText == JsonObject("{\"skill\":\"summarize\",\"text\":\"abc\"}",
                               {JStr("skill", "summarize"), JStr("text", "abc")})

UnknownSkillPlanText ==
    JsonText(<< <<"{\"skill\":\"plan\",\"note\":\"so", "Let", "me", "think\"}">> >>,
             {JStr("skill", "plan"), JStr("note", "so Let me think")})

NoDiscriminatorText == JsonObject("{\"result\":\"some data\"}", {JStr("result", "some data")})

\* a planning marker in a text of 300 bytes or more
LongPlanText == PlainText(<< <<"I", "will">> \o [i \in 1..74 |-> "data"] >>)

\* a JSON string holding a planning marker
JsonPlanScalar ==
    [pad |-> FALSE, lines |-> << <<"\"so", "we", "can", "go\"">> >>, json |-> "other",
     fields |-> NoFields]

\* "I will", 58 times "data" and a last word: 296 bytes and the last word's
PlanTextOfLen(last) == PlainText(<< <<"I", "will">> \o [i \in 1..58 |-> "data"] \o <<last>> >>)

\* a planning marker in a text of 206 characters and 366 bytes
WidePlanText == Padded(PlainText(<< <<"I", "will">> \o [i \in 1..40 |-> "éééé"] >>))

\* every kind of text the classifier may be given
ClassifierInputs ==
    ModelOutputs \cup
    { ToolPlanText, Padded(ToolCallText), Padded(SkillCallText), NonStringToolText,
      NonStringToolPlanText, UnknownSkillText, UnknownSkillPlanText, NoDiscriminatorText,
      JsonScalar("42"), JsonPlanScalar, EmptyText, Padded(EmptyText), LongPlanText,
      PlanTextOfLen("ab"), PlanTextOfLen("abc"), WidePlanText }

\* what standard output may hold after a command that succeeds
Stdouts ==
    { EmptyText,
      PlainText(<< <<"total", "123">> >>),
      PlainText(<< <<"ok">> >>),
      Padded(PlainText(<< <<"file1.txt">>, <<"file2.txt">> >>)) }

ShellEnvs ==
    { ShellEnv(FALSE, TRUE, TRUE, EmptyText, EmptyText),
      ShellEnv(TRUE, FALSE, TRUE, EmptyText, EmptyText),
      ShellEnv(TRUE, TRUE, FALSE, EmptyText, Str("ls: cannot access")),
      ShellEnv(TRUE, TRUE, FALSE, EmptyText, EmptyText) }
    \cup { ShellEnv(TRUE, TRUE, TRUE, out, EmptyText) : out \in Stdouts }

\* the backend's answers to the extraction prompt: failure, or a text
SkillAnswers ==
    { [ok |-> FALSE, text |-> EmptyText],
      [ok |-> TRUE, text |-> JsonObject("{\"email\":[\"Hello@Agent.rs\"]}",
                                        {JArr("email", <<"Hello@Agent.rs">>)})],
      [ok |-> TRUE, text |-> JsonObject("{\"email\":[\"bob@evil.com\"]}",
                                        {JArr("email", <<"bob@evil.com">>)})],
      [ok |-> TRUE, text |-> Str("Sure!")] }

\* one part of a rendered prompt
Part(part, content) == [part |-> part, content |-> content]

\* the messages of the history as the prompt shows them: "User: " and
\* "Assistant: " before the content, a tool message bare
RenderHistory(history) ==
    [i \in DOMAIN history |->
        Part(IF history[i].role = "Tool" THEN "" ELSE history[i].role \o ": ",
             history[i].content)]

SchemaPart == Part("TOOL_RESPONSE_SCHEMA", EmptyText)

\* a slip: the response schema in every prompt
before_llm_call_SchemaAlways(st, used, corrective) ==
    <<Part("system_prompt", EmptyText)>>
    \o RenderHistory(st.history)
    \o <<SchemaPart>>
    \o (IF corrective THEN <<Part("CRITICAL", EmptyText)>> ELSE << >>)
    \o <<Part("Assistant: ", EmptyText)>>

\* before_llm_call(state, tool_used, corrective, system_prompt)
before_llm_call(st, used, corrective) ==
    <<Part("system_prompt", EmptyText)>>
    \o RenderHistory(st.history)
    \o (IF used THEN <<SchemaPart>> ELSE << >>)
    \o (IF corrective THEN <<Part("CRITICAL", EmptyText)>> ELSE << >>)
    \o <<Part("Assistant: ", EmptyText)>>

(* ------------------------------- state --------------------------------- *)

VARIABLES
    max_iterations,   \* args.max_iterations
    state,            \* the AgentState of run_agent
    iteration,        \* the loop counter
    tool_used,        \* run_agent's tool_used flag
    pc,               \* where run_agent stands: the call it is about to make
    request,          \* the tool or skill request about to be executed
    reason,           \* the reason of the rejection being retried
    output,           \* the inconclusive output being retried
    exit_code,        \* -1 while running, then the process's exit code
    diag,             \* the diagnostic written when the process fails
    answer_out,       \* the answer printed on success
    generated,        \* the text the backend returned in this step, if any
    trace,            \* the events of the session so far, in order
    infer_calls,      \* backend inference calls made so far
    retry_calls,      \* of which corrective retries
    tool_calls,       \* execute_tool calls made so far
    guard_calls,      \* GuardrailChain::validate calls made so far
    last_apply,       \* the last apply_tool_result: where, and the result applied
    guards,           \* the validators of the guardrail chain
    validated,        \* the tool result given to the last GuardrailChain::validate
    verdict,          \* the result of that call
    invoked,          \* the validators that call invoked, in order
    op,               \* the operation on the AgentState applied last
    calls,            \* the last two process_model_output calls: input and result
    appended,         \* the messages pushed onto the history so far, in order
    prompt,           \* the prompt before_llm_call rendered last
    executed,         \* the results execute_tool has returned so far
    skill_call,       \* the function of the extraction skill called last: inputs and result
    iter_start        \* the call counters as they stood when the current iteration began

vars == <<max_iterations, state, iteration, tool_used, pc, request, reason, output,
          exit_code, diag, answer_out, generated, trace, infer_calls, retry_calls,
          tool_calls, guard_calls, last_apply, guards, validated, verdict, invoked,
          op, calls, appended, prompt, executed, skill_call, iter_start>>

\* what the operations on an AgentState taken alone record
api == <<op, calls, appended>>

Running == -1

NoSkillCall == [fn |-> ""]

\* the calls made so far: inferences, tool executions, chain validations
Counters(i, t, g) == [infer |-> i, tools |-> t, guards |-> g]

NoApply == [site |-> "", result |-> ToolResult_failure(EmptyText)]

RunAgentInit(n) ==
    /\ max_iterations = n
    /\ state = AgentState_new(Query)
    /\ iteration = 0
    /\ tool_used = FALSE
    /\ pc = "loop"
    /\ request = NoRequest
    /\ reason = ""
    /\ output = EmptyText
    /\ exit_code = Running
    /\ diag = NoDiag
    /\ answer_out = {}
    /\ generated = {}
    /\ trace = << >>
    /\ infer_calls = 0
    /\ retry_calls = 0
    /\ tool_calls = 0
    /\ guard_calls = 0
    /\ last_apply = NoApply
    /\ validated = {}
    /\ verdict = Accept
    /\ invoked = << >>
    /\ op = "new"
    /\ calls = << >>
    /\ appended = << >>
    /\ prompt = << >>
    /\ executed = {}
    /\ skill_call = NoSkillCall
    /\ iter_start = Counters(0, 0, 0)

\* run_agent, lines 210-226: the chain holds the plausibility guard alone
Init ==
    /\ \E n \in 0..MaxIterations : RunAgentInit(n)
    /\ guards = GuardrailChain_add(GuardrailChain_new, "plausibility_guard")

(* ----------------------- main.rs: run_agent ---------------------------- *)

Goto(p, req) ==
    /\ pc' = p
    /\ request' = req
    /\ UNCHANGED <<exit_code, diag, answer_out>>

\* std::process::exit(code), or the return from run_agent and main
Exit(code, d, answer) ==
    /\ pc' = "exited"
    /\ request' = NoRequest
    /\ exit_code' = code
    /\ diag' = d
    /\ answer_out' = answer

\* a slip: the answer printed and the process left with status 1
ExitSuccess_Status1(answer) == Exit(1, NoDiag, {answer})

\* `return Ok(())` after printing the answer
ExitSuccess(answer) == Exit(0, NoDiag, {answer})

\* a slip: the error swallowed and the loop resumed
ExitError_Continue(msg) == Goto("loop", NoRequest)

\* an Err leaves run_agent through `?`; main returns it: exit status 1
ExitError(msg) == Exit(1, report_error(msg), {})

\* a panic unwinds out of main: exit status 101
ExitPanic(msg) == Exit(101, report_error(msg), {})

NoGuard == UNCHANGED <<guard_calls, validated, verdict, invoked>>

Event(e) == trace' = Append(trace, e)

\* lines 233, 296 and 378: the prompt of the inference about to be made
Render(corrective) == prompt' = before_llm_call(state, tool_used, corrective)

\* execute_tool(&tool_request) returning: an Err records no result
Executed(r) == executed' = IF r.ok THEN executed \cup {r.result} ELSE executed

\* LlamaCppBackend::infer returning a text
Infer(text) ==
    /\ infer_calls' = infer_calls + 1
    /\ generated' = {text}

\* LlamaCppBackend::infer returning Err
InferFails ==
    /\ infer_calls' = infer_calls + 1
    /\ generated' = {}

\* the condition of the while loop, line 229
LoopContinues_OffByOne(i, n) == i <= n

LoopContinues(i, n) == i < n

\* lines 229-247 and the head of each arm: one primary generation
PrimaryGeneration(text) ==
    /\ pc = "loop" /\ LoopContinues(iteration, max_iterations)
    /\ iteration' = iteration + 1
    /\ iter_start' = Counters(infer_calls, tool_calls, guard_calls)
    /\ Render(FALSE)
    /\ Infer(text)
    /\ LET r == process_model_output(state, text)
           d == r.decision
       IN /\ state' = r.state
          /\ Event("primary:" \o d.kind)
          /\ CASE d.kind = "InvokeSkill" -> Goto("primary_skill", d.request) /\ output' = output
               [] d.kind = "InvokeTool" -> Goto("primary_tool", d.request) /\ output' = output
               [] d.kind = "Done" -> ExitSuccess(d.text) /\ output' = output
               [] OTHER -> Goto("inconclusive_retry", NoRequest) /\ output' = d.text
    /\ NoGuard
    /\ UNCHANGED <<api, skill_call, executed, max_iterations, tool_used, reason, retry_calls, tool_calls, last_apply, guards>>

\* line 241: the primary inference fails
PrimaryInferError ==
    /\ pc = "loop" /\ LoopContinues(iteration, max_iterations)
    /\ iteration' = iteration + 1
    /\ iter_start' = Counters(infer_calls, tool_calls, guard_calls)
    /\ Render(FALSE)
    /\ InferFails
    /\ Event("error")
    /\ ExitError("inference failed")
    /\ NoGuard
    /\ UNCHANGED <<api, skill_call, executed, max_iterations, state, tool_used, reason, output, retry_calls, tool_calls,
                   last_apply, guards>>

\* lines 449-450: the loop's condition fails
MaxIterationsReached ==
    /\ pc = "loop" /\ ~LoopContinues(iteration, max_iterations)
    /\ Exit(1, report_max_iterations, {})
    /\ generated' = {}
    /\ Event("exhausted")
    /\ NoGuard
    /\ UNCHANGED <<api, skill_call, iter_start, prompt, executed, max_iterations, state, iteration, tool_used, reason, output, infer_calls,
                   retry_calls, tool_calls, last_apply, guards>>

\* a slip: a failed skill result treated like an Err
SkillArm_FatalOnFailure(site, llm) ==
    /\ pc = site
    /\ LET r == execute_skill(request, llm) IN
       /\ infer_calls' = infer_calls + (IF r.inferred THEN 1 ELSE 0)
       /\ generated' = IF r.inferred /\ r.ok THEN {llm.text} ELSE {}
       /\ IF r.ok /\ r.result.success
          THEN /\ state' = add_message(state, "Tool", SkillMessage(r.result))
               /\ Event("skill:ok")
               /\ Goto("loop", NoRequest)
          ELSE /\ state' = state
               /\ Event(IF r.ok THEN "skill:failed" ELSE "error")
               /\ ExitError("skill failed")
    /\ reason' = "" /\ output' = EmptyText
    /\ NoGuard
    /\ UNCHANGED <<api, skill_call, iter_start, prompt, executed, max_iterations, iteration, tool_used, retry_calls, tool_calls, last_apply,
                   guards>>

\* a skill arm (lines 248-267, 309-330, 391-408): execute, append, continue
SkillArm(site, llm) ==
    /\ pc = site
    /\ LET r == execute_skill(request, llm) IN
       /\ infer_calls' = infer_calls + (IF r.inferred THEN 1 ELSE 0)
       /\ generated' = IF r.inferred /\ r.ok THEN {llm.text} ELSE {}
       /\ IF r.ok
          THEN /\ state' = add_message(state, "Tool", SkillMessage(r.result))
               /\ Event(IF r.result.success THEN "skill:ok" ELSE "skill:failed")
               /\ Goto("loop", NoRequest)
          ELSE /\ state' = state
               /\ Event("error")
               /\ ExitError("inference failed")
    /\ reason' = "" /\ output' = EmptyText
    /\ NoGuard
    /\ UNCHANGED <<api, skill_call, iter_start, prompt, executed, max_iterations, iteration, tool_used, retry_calls, tool_calls, last_apply,
                   guards>>

PrimarySkill == \E llm \in SkillAnswers : SkillArm("primary_skill", llm)

RejectRetrySkill == \E llm \in SkillAnswers : SkillArm("reject_skill", llm)

InconclusiveRetrySkill == \E llm \in SkillAnswers : SkillArm("inconclusive_skill", llm)

GuardrailContext(st, req, result) == [state |-> st, tool_request |-> req, tool_result |-> result]

Applied(site, result) == [site |-> site, result |-> result]

\* guardrail_chain.validate(&guard_ctx) as run_agent calls it
Validate(v, result) ==
    /\ guard_calls' = guard_calls + 1
    /\ validated' = {result}
    /\ verdict' = v.result
    /\ invoked' = v.invoked

\* a slip: the rejected outcome appended all the same
PrimaryTool_AppendsRejected(env) ==
    /\ pc = "primary_tool"
    /\ tool_calls' = tool_calls + 1
    /\ generated' = {}
    /\ Executed(execute_tool(request, env))
    /\ LET r == execute_tool(request, env)
           v == GuardrailChain_validate(guards, GuardrailContext(state, request, r.result))
       IN IF ~r.ok
          THEN /\ ExitError(r.err)
               /\ Event("error")
               /\ NoGuard
               /\ UNCHANGED <<state, tool_used, reason, last_apply>>
          ELSE /\ Validate(v, r.result)
               /\ IF v.result.panic
                  THEN /\ ExitPanic(v.result.reason)
                       /\ Event("panic")
                       /\ UNCHANGED <<state, tool_used, reason, last_apply>>
                  ELSE IF v.result.accept
                  THEN /\ state' = apply_tool_result(state, r.result)
                       /\ tool_used' = TRUE
                       /\ last_apply' = Applied("primary_tool", r.result)
                       /\ reason' = ""
                       /\ Event("tool:accept")
                       /\ Goto("loop", NoRequest)
                  ELSE /\ reason' = v.result.reason
                       /\ state' = apply_tool_result(state, r.result)
                       /\ Event("tool:reject")
                       /\ Goto("reject_retry", NoRequest)
                       /\ UNCHANGED <<tool_used, last_apply>>
    /\ UNCHANGED <<api, skill_call, iter_start, prompt, max_iterations, iteration, output, infer_calls, retry_calls, guards>>

\* lines 268-296: execute the tool of a primary generation and validate it
PrimaryTool(env) ==
    /\ pc = "primary_tool"
    /\ tool_calls' = tool_calls + 1
    /\ generated' = {}
    /\ Executed(execute_tool(request, env))
    /\ LET r == execute_tool(request, env)
           v == GuardrailChain_validate(guards, GuardrailContext(state, request, r.result))
       IN IF ~r.ok
          THEN /\ ExitError(r.err)
               /\ Event("error")
               /\ NoGuard
               /\ UNCHANGED <<state, tool_used, reason, last_apply>>
          ELSE /\ Validate(v, r.result)
               /\ IF v.result.panic
                  THEN /\ ExitPanic(v.result.reason)
                       /\ Event("panic")
                       /\ UNCHANGED <<state, tool_used, reason, last_apply>>
                  ELSE IF v.result.accept
                  THEN /\ state' = apply_tool_result(state, r.result)
                       /\ tool_used' = TRUE
                       /\ last_apply' = Applied("primary_tool", r.result)
                       /\ reason' = ""
                       /\ Event("tool:accept")
                       /\ Goto("loop", NoRequest)
                  ELSE /\ reason' = v.result.reason
                       /\ Event("tool:reject")
                       /\ Goto("reject_retry", NoRequest)
                       /\ UNCHANGED <<state, tool_used, last_apply>>
    /\ UNCHANGED <<api, skill_call, iter_start, prompt, max_iterations, iteration, output, infer_calls, retry_calls, guards>>

\* lines 294-363: the corrective retry after a rejection
RejectRetry(text) ==
    /\ pc = "reject_retry"
    /\ Render(TRUE)
    /\ Infer(text)
    /\ retry_calls' = retry_calls + 1
    /\ LET r == process_model_output(state, text)
           d == r.decision
       IN /\ state' = r.state
          /\ Event("retry:" \o d.kind)
          /\ CASE d.kind = "InvokeSkill" -> Goto("reject_skill", d.request)
               [] d.kind = "InvokeTool" -> Goto("reject_tool", d.request)
               [] d.kind = "Done" -> ExitSuccess(d.text)
               [] OTHER ->
                    Exit(1, report_inconclusive_after_guardrail_failure(reason, d.text), {})
    /\ NoGuard
    /\ UNCHANGED <<api, skill_call, iter_start, executed, max_iterations, iteration, tool_used, reason, output, tool_calls,
                   last_apply, guards>>

\* line 303: the retry's inference fails
RejectRetryInferError ==
    /\ pc = "reject_retry"
    /\ Render(TRUE)
    /\ InferFails
    /\ retry_calls' = retry_calls + 1
    /\ Event("error")
    /\ ExitError("inference failed")
    /\ NoGuard
    /\ UNCHANGED <<api, skill_call, iter_start, executed, max_iterations, state, iteration, tool_used, reason, output, tool_calls,
                   last_apply, guards>>

\* lines 331-355: execute the retry's tool and validate it once more
RejectRetryTool(env) ==
    /\ pc = "reject_tool"
    /\ tool_calls' = tool_calls + 1
    /\ generated' = {}
    /\ Executed(execute_tool(request, env))
    /\ LET r == execute_tool(request, env)
           v == GuardrailChain_validate(guards, GuardrailContext(state, request, r.result))
       IN IF ~r.ok
          THEN /\ ExitError(r.err)
               /\ Event("error")
               /\ NoGuard
               /\ UNCHANGED <<state, tool_used, reason, last_apply>>
          ELSE /\ Validate(v, r.result)
               /\ IF v.result.panic
                  THEN /\ ExitPanic(v.result.reason)
                       /\ Event("panic")
                       /\ UNCHANGED <<state, tool_used, reason, last_apply>>
                  ELSE IF v.result.accept
                  THEN /\ state' = apply_tool_result(state, r.result)
                       /\ tool_used' = TRUE
                       /\ last_apply' = Applied("reject_tool", r.result)
                       /\ reason' = ""
                       /\ Event("tool:accept")
                       /\ Goto("loop", NoRequest)
                  ELSE /\ Exit(1, report_guardrail_failure(reason, v.result.reason), {})
                       /\ Event("tool:reject")
                       /\ UNCHANGED <<state, tool_used, reason, last_apply>>
    /\ UNCHANGED <<api, skill_call, iter_start, prompt, max_iterations, iteration, output, infer_calls, retry_calls, guards>>

\* a slip: the corrective retry counted as an iteration
InconclusiveRetry_Counted(text) ==
    /\ pc = "inconclusive_retry"
    /\ Render(TRUE)
    /\ Infer(text)
    /\ retry_calls' = retry_calls + 1
    /\ iteration' = iteration + 1
    /\ LET r == process_model_output(state, text)
           d == r.decision
       IN /\ state' = r.state
          /\ Event("retry:" \o d.kind)
          /\ CASE d.kind = "InvokeSkill" -> Goto("inconclusive_skill", d.request)
               [] d.kind = "InvokeTool" -> Goto("inconclusive_tool", d.request)
               [] d.kind = "Done" -> ExitSuccess(d.text)
               [] OTHER -> Exit(1, report_inconclusive_after_retry(output, d.text), {})
    /\ NoGuard
    /\ UNCHANGED <<api, skill_call, iter_start, executed, max_iterations, tool_used, reason, output, tool_calls, last_apply, guards>>

\* lines 371-445: the corrective retry after an inconclusive output
InconclusiveRetry(text) ==
    /\ pc = "inconclusive_retry"
    /\ Render(TRUE)
    /\ Infer(text)
    /\ retry_calls' = retry_calls + 1
    /\ LET r == process_model_output(state, text)
           d == r.decision
       IN /\ state' = r.state
          /\ Event("retry:" \o d.kind)
          /\ CASE d.kind = "InvokeSkill" -> Goto("inconclusive_skill", d.request)
               [] d.kind = "InvokeTool" -> Goto("inconclusive_tool", d.request)
               [] d.kind = "Done" -> ExitSuccess(d.text)
               [] OTHER -> Exit(1, report_inconclusive_after_retry(output, d.text), {})
    /\ NoGuard
    /\ UNCHANGED <<api, skill_call, iter_start, executed, max_iterations, iteration, tool_used, reason, output, tool_calls,
                   last_apply, guards>>

\* line 385: the retry's inference fails
InconclusiveRetryInferError ==
    /\ pc = "inconclusive_retry"
    /\ Render(TRUE)
    /\ InferFails
    /\ retry_calls' = retry_calls + 1
    /\ Event("error")
    /\ ExitError("inference failed")
    /\ NoGuard
    /\ UNCHANGED <<api, skill_call, iter_start, executed, max_iterations, state, iteration, tool_used, reason, output, tool_calls,
                   last_apply, guards>>

\* lines 409-415: execute the retry's tool and apply its result
InconclusiveRetryTool(env) ==
    /\ pc = "inconclusive_tool"
    /\ tool_calls' = tool_calls + 1
    /\ generated' = {}
    /\ Executed(execute_tool(request, env))
    /\ LET r == execute_tool(request, env)
       IN IF ~r.ok
          THEN /\ ExitError(r.err)
               /\ Event("error")
               /\ UNCHANGED <<state, tool_used, output, last_apply>>
          ELSE /\ state' = apply_tool_result(state, r.result)
               /\ tool_used' = TRUE
               /\ last_apply' = Applied("inconclusive_tool", r.result)
               /\ output' = EmptyText
               /\ Event("tool:applied")
               /\ Goto("loop", NoRequest)
    /\ NoGuard
    /\ UNCHANGED <<api, skill_call, iter_start, prompt, max_iterations, iteration, reason, infer_calls, retry_calls, guards>>

Next ==
    \/ \E text \in ModelOutputs : PrimaryGeneration(text)
    \/ PrimaryInferError
    \/ MaxIterationsReached
    \/ PrimarySkill
    \/ \E env \in ShellEnvs : PrimaryTool(env)
    \/ \E text \in ModelOutputs : RejectRetry(text)
    \/ RejectRetryInferError
    \/ RejectRetrySkill
    \/ \E env \in ShellEnvs : RejectRetryTool(env)
    \/ \E text \in ModelOutputs : InconclusiveRetry(text)
    \/ InconclusiveRetryInferError
    \/ InconclusiveRetrySkill
    \/ \E env \in ShellEnvs : InconclusiveRetryTool(env)

Spec == Init /\ [][Next]_vars

\* every backend call and every tool or skill execution returns
FairSpec == Spec /\ WF_vars(Next)

(* ------------------- guardrail.rs: the chain on its own ---------------- *)

\* the outputs of the commands a chain is asked about
ChainOutputs ==
    { EmptyText,
      Padded(EmptyText),
      PlainText(<< <<"total", "123">> >>),
      Padded(PlainText(<< <<"TOTAL", "8">> >>)),
      PlainText(<< <<"total", "8">>, <<"-rw-r--r--", "1", "user", "group", "1234", "file.txt">> >>),
      PlainText(<< <<"total", "123", "456">> >>),
      PlainText(<< <<"totals", "12">> >>),
      PlainText(<< <<"total", "abc1">> >>),
      PlainText(<< <<"total">> >>),
      PlainText(<< <<"ok">> >>),
      PlainText(<< <<"éé">> >>),
      PlainText(<< <<"---">> >>),
      PlainText(<< <<"-">>, <<"-">> >>),
      Padded(PlainText(<< <<"file1.txt">>, <<"file2.txt">> >>)) }

\* the tool results a chain is asked to validate: those the constructors
\* make, and failed ones whose public fields hold anything
ChainResults ==
    { ToolResult_success(out) : out \in ChainOutputs }
    \cup { ToolResult_failure(Str("Command rejected by user")) }
    \cup { [success |-> FALSE, output |-> out, error |-> {}] :
              out \in {EmptyText, PlainText(<< <<"total", "123">> >>), PlainText(<< <<"ok">> >>)} }

\* GuardrailChain::new()
InitChain ==
    /\ RunAgentInit(0)
    /\ guards = GuardrailChain_new

\* GuardrailChain::add
ChainAdd(guard) ==
    /\ Len(guards) < MaxGuards
    /\ guards' = GuardrailChain_add(guards, guard)
    /\ validated' = {}
    /\ verdict' = Accept
    /\ invoked' = << >>
    /\ UNCHANGED <<api, skill_call, iter_start, prompt, executed, max_iterations, state, iteration, tool_used, pc, request, reason, output,
                   exit_code, diag, answer_out, generated, trace, infer_calls, retry_calls,
                   tool_calls, guard_calls, last_apply>>

\* GuardrailChain::validate
ChainValidate(result) ==
    /\ LET v == GuardrailChain_validate(guards, GuardrailContext(state, request, result))
       IN /\ validated' = {result}
          /\ verdict' = v.result
          /\ invoked' = v.invoked
    /\ UNCHANGED <<api, skill_call, iter_start, prompt, executed, max_iterations, state, iteration, tool_used, pc, request, reason, output,
                   exit_code, diag, answer_out, generated, trace, infer_calls, retry_calls,
                   tool_calls, guard_calls, last_apply, guards>>

NextChain ==
    \/ \E guard \in GuardKinds : ChainAdd(guard)
    \/ \E result \in ChainResults : ChainValidate(result)

SpecChain == InitChain /\ [][NextChain]_vars

(* ---------------- agent.rs: the AgentState operations alone ------------- *)

\* run_agent's own variables, which these operations leave alone
loop == <<max_iterations, iteration, tool_used, pc, request, reason, output, exit_code,
          diag, answer_out, generated, trace, infer_calls, retry_calls, tool_calls,
          guard_calls, last_apply, guards, validated, verdict, invoked, prompt, executed,
          iter_start>>

\* the messages a host may append
HostMessages ==
    { [role |-> "User", content |-> Str("And now?")],
      [role |-> "Assistant", content |-> Str("ok")],
      [role |-> "Tool", content |-> PlainText(<< <<"Tool", "output:">>, <<"file1.txt">> >>)] }

\* the tool results a host may apply
HostResults ==
    { ToolResult_success(PlainText(<< <<"file1.txt">>, <<"file2.txt">> >>)),
      ToolResult_failure(Str("Command rejected by user")),
      [success |-> FALSE, output |-> EmptyText, error |-> {}] }

\* AgentState::new(query)
InitState ==
    /\ RunAgentInit(0)
    /\ guards = GuardrailChain_new

\* the messages a call pushed onto the history
Pushed(old, new) == SubSeq(new, Len(old) + 1, Len(new))

LastTwo(cs) == IF Len(cs) > 2 THEN Tail(cs) ELSE cs

\* state.add_message(role, content)
AddMessage(m) ==
    /\ Len(state.history) < MaxHistory
    /\ state' = add_message(state, m.role, m.content)
    /\ op' = "add_message"
    /\ appended' = Append(appended, m)
    /\ UNCHANGED <<calls, loop, skill_call>>

\* process_model_output(&mut state, text)
ProcessModelOutput(text) ==
    /\ Len(state.history) < MaxHistory
    /\ LET r == process_model_output(state, text) IN
       /\ state' = r.state
       /\ calls' = LastTwo(Append(calls, [state |-> state, text |-> text,
                                          decision |-> r.decision, after |-> r.state]))
       /\ appended' = appended \o Pushed(state.history, r.state.history)
    /\ op' = "process_model_output"
    /\ UNCHANGED <<loop, skill_call>>

\* apply_tool_result(&mut state, &result)
ApplyToolResult(result) ==
    /\ Len(state.history) < MaxHistory
    /\ state' = apply_tool_result(state, result)
    /\ op' = "apply_tool_result"
    /\ appended' = appended \o Pushed(state.history, state'.history)
    /\ last_apply' = Applied("apply_tool_result", result)
    /\ UNCHANGED <<calls, skill_call, max_iterations, iteration, tool_used, pc, request, reason,
                   output, exit_code, diag, answer_out, generated, trace, infer_calls,
                   retry_calls, tool_calls, guard_calls, guards, validated, verdict, invoked,
                   prompt, executed, iter_start>>

NextState ==
    \/ \E m \in HostMessages : AddMessage(m)
    \/ \E text \in ClassifierInputs : ProcessModelOutput(text)
    \/ \E result \in HostResults : ApplyToolResult(result)

SpecState == InitState /\ [][NextState]_vars

(* ---------------- the extraction skill, function by function ----------- *)

\* the texts a skill is asked to extract from
SkillTexts == {"", "Contact us at hello@agent.rs", "Alice met Bob at Acme in Paris"}

\* the target names a request may carry
SkillTargetNames ==
    {"email", "EMAIL", "url", "URL", "date", "Date", "entity", "Entity", "name", "Name",
     "phone", ""}

\* the object under "entity": its members are kept under "entity.<member>"
JObj(k) == [k |-> k, t |-> "object", s |-> "", items |-> << >>]

\* the texts the backend may answer an extraction prompt with
SkillOutputs ==
    { JsonObject("{\"email\":[\"Hello@Agent.rs\"]}", {JArr("email", <<"Hello@Agent.rs">>)}),
      JsonObject("{\"email\":[\"bob@evil.com\"]}", {JArr("email", <<"bob@evil.com">>)}),
      JsonObject("{\"email\":[\"hello@agent.rs\",\"fake@example.com\",\"bob@evil.com\"]}",
                 {JArr("email", <<"hello@agent.rs", "fake@example.com", "bob@evil.com">>)}),
      Padded(JsonObject("{\"email\":\"agent.rs\"}", {JStr("email", "agent.rs")})),
      JsonObject("{\"email\":\"bob@evil.com\"}", {JStr("email", "bob@evil.com")}),
      JsonObject("{\"email\":5}", {JNum("email", "5")}),
      JsonObject("{\"email\":[]}", {JArr("email", << >>)}),
      JsonObject("{\"email\":[\"\"]}", {JArr("email", <<"">>)}),
      JsonObject("{\"url\":\"http://example.com\"}", {JStr("url", "http://example.com")}),
      JsonObject("{\"entity\":{\"people\":[\"Alice Smith\"],\"organizations\":[\"Acme\"],\"locations\":[\"paris\"]}}",
                 {JObj("entity"), JArr("entity.people", <<"Alice Smith">>),
                  JArr("entity.organizations", <<"Acme">>),
                  JArr("entity.locations", <<"paris">>)}),
      JsonObject("{\"entity\":{\"people\":[\"Carol Jones\"]}}",
                 {JObj("entity"), JArr("entity.people", <<"Carol Jones">>)}),
      JsonObject("{\"entity\":{\"people\":[\"ALICE\"],\"organizations\":[\"Carol Jones\"],\"locations\":[\"Berlin\"]}}",
                 {JObj("entity"), JArr("entity.people", <<"ALICE">>),
                  JArr("entity.organizations", <<"Carol Jones">>),
                  JArr("entity.locations", <<"Berlin">>)}),
      JsonObject("{\"entity\":{\"locations\":[\"Paris\",\"\"]}}",
                 {JObj("entity"), JArr("entity.locations", <<"Paris", "">>)}),
      JsonObject("{\"entity\":{\"people\":[\" \"]}}",
                 {JObj("entity"), JArr("entity.people", <<" ">>)}),
      JsonObject("{\"entity\":{\"people\":\"Carol Jones\"}}",
                 {JObj("entity"), JStr("entity.people", "Carol Jones")}),
      JsonObject("{\"entity\":\"Carol\"}", {JStr("entity", "Carol")}),
      JsonScalar("42"),
      Str("Sure!") }

\* the backend's answers to an extraction prompt: failure, or a text
SkillReplies ==
    {[ok |-> FALSE, text |-> EmptyText]} \cup {[ok |-> TRUE, text |-> t] : t \in SkillOutputs}

\* the skill requests the host may be handed
SkillRequests ==
    { [name |-> "extract", params |-> {JStr("text", x), JStr("target", t)}] :
          x \in SkillTexts, t \in {"email", "EMAIL", "Entity", "name", "phone"} }
    \cup { [name |-> "extract", params |-> {JStr("target", "email")}],
           [name |-> "extract", params |-> {JStr("text", "Contact us at hello@agent.rs")}],
           [name |-> "extract", params |-> {JStr("text", "Contact us at hello@agent.rs"),
                                            JNum("target", "5")}],
           [name |-> "summarize", params |-> {JStr("text", "Contact us at hello@agent.rs"),
                                              JStr("target", "email")}] }

InitSkill ==
    /\ RunAgentInit(0)
    /\ guards = GuardrailChain_new

\* execute_skill(&request, llm_backend, ..)
ExecuteSkill(req, llm) ==
    /\ skill_call' = [fn |-> "execute_skill", req |-> req, llm |-> llm,
                      ret |-> execute_skill(req, llm)]
    /\ UNCHANGED <<state, api, loop>>

\* ExtractionInput::new(text, target).validate()
ValidateInput(text, target) ==
    /\ skill_call' = [fn |-> "validate", text |-> text, target |-> target,
                      ret |-> ExtractionInput_validate(text, target)]
    /\ UNCHANGED <<state, api, loop>>

\* validate_extraction_output(&input, &output, target) on a parsed output
ValidateOutput(text, parsed, target) ==
    /\ skill_call' = [fn |-> "validate_extraction_output", text |-> text, output |-> parsed,
                      target |-> target,
                      ret |-> validate_extraction_output(text, parsed, target)]
    /\ UNCHANGED <<state, api, loop>>

\* the raw texts parse_skill_output is given: the backend's, bare or within
\* whitespace, and the empty one
RawOutputs == SkillOutputs \cup {Padded(t) : t \in SkillOutputs} \cup {EmptyText, Padded(EmptyText)}

\* the ExtractionOutput { result: value } of a text that parsed
ExtractionOutputOf(raw) == trim(raw)

\* parse_skill_output(raw, target)
ParseOutput(raw, target) ==
    /\ skill_call' = [fn |-> "parse_skill_output", raw |-> raw, target |-> target,
                      ret |-> [err |-> parse_skill_output(raw, target),
                               result |-> IF parse_skill_output(raw, target) = ""
                                          THEN {ExtractionOutputOf(raw)} ELSE {}]]
    /\ UNCHANGED <<state, api, loop>>

NextSkill ==
    \/ \E req \in SkillRequests, llm \in SkillReplies : ExecuteSkill(req, llm)
    \/ \E raw \in RawOutputs, target \in ExtractionTargets : ParseOutput(raw, target)
    \/ \E text \in SkillTexts, target \in SkillTargetNames : ValidateInput(text, target)
    \/ \E text \in SkillTexts, out \in SkillOutputs, target \in ExtractionTargets :
          ValidateOutput(text, trim(out), target)

SpecSkill == InitSkill /\ [][NextSkill]_vars

(* ------------------------------ properties ----------------------------- *)

\* the decision run_agent draws from the text generated in this step
GeneratedText == CHOOSE t \in generated' : TRUE

GeneratedKind == IF generated' = {} THEN "" ELSE parse_model_output(GeneratedText).kind

RetrySites == {"reject_retry", "inconclusive_retry"}

\* this step executed a tool and appended its outcome to the history
AppendsToolOutcome ==
    /\ tool_calls' = tool_calls + 1
    /\ Len(state'.history) = Len(state.history) + 1
    /\ state'.history[Len(state'.history)].role = "Tool"

\* C1: when the primary generation was Inconclusive and the corrective retry
\* is InvokeTool, the tool's outcome passes through GuardrailChain.validate
\* exactly once in the step that executes it and appends it to the history.
C1_ValidatedOnceAfterInconclusive ==
    [][(pc = "inconclusive_tool" /\ AppendsToolOutcome) => guard_calls' = guard_calls + 1]_vars

C3_RetryOutsideBudget ==
    /\ [][/\ (pc = "loop" /\ infer_calls' # infer_calls) => iteration' = iteration + 1
          /\ pc # "loop" => iteration' = iteration
          /\ retry_calls' # retry_calls
               => /\ retry_calls' = retry_calls + 1
                  /\ infer_calls' = infer_calls + 1
                  /\ pc \in RetrySites
          /\ pc' \in RetrySites => pc \in {"loop", "primary_tool"}]_vars
    /\ [](retry_calls <= iteration /\ iteration <= max_iterations)

\* N primary generations, each of which needed a corrective retry
C3_Witness ==
    /\ max_iterations = MaxIterations
    /\ iteration = max_iterations
    /\ retry_calls = max_iterations

\* C4: a rejection with reason r1 whose corrective retry is a tool call
\* rejected with reason r2 ends the run with exit code 1 and the
\* double-rejection diagnostic holding r1 and r2; no call follows the exit.
C4_DoubleRejection ==
    [][/\ (pc = "primary_tool" /\ guard_calls' # guard_calls /\ is_reject(verdict'))
            => pc' = "reject_retry" /\ reason' = verdict'.reason
       /\ pc = "reject_retry" => reason' = reason
       /\ (pc = "reject_tool" /\ guard_calls' # guard_calls /\ is_reject(verdict'))
            => /\ pc' = "exited" /\ exit_code' = 1
               /\ diag'.mode = "guardrail_failure"
               /\ diag'.reasons = <<reason, verdict'.reason>>
       /\ pc = "exited" => UNCHANGED <<infer_calls, tool_calls>>]_vars

\* Scenario C, with two different reasons
C4_Witness ==
    /\ pc = "exited" /\ exit_code = 1
    /\ trace = <<"primary:InvokeTool", "tool:reject", "retry:InvokeTool", "tool:reject">>
    /\ diag.reasons = <<ReasonEmpty, ReasonMetadata>>

GenerationSites == {"loop"} \cup RetrySites

\* C6: whenever a generation (primary or corrective retry) is classified
\* Done(text), the step appends text as an Assistant message, marks the
\* state complete with final_answer = text and exits with success, printing
\* text; no backend or tool call follows; a first generation that is Done
\* ends the run on iteration 1.
C6_DoneTerminates ==
    [][/\ (pc \in GenerationSites /\ GeneratedKind = "FinalAnswer")
            => LET text == trim(GeneratedText) IN
               /\ pc' = "exited" /\ exit_code' = 0
               /\ state'.history = Append(state.history, [role |-> "Assistant", content |-> text])
               /\ state'.is_complete
               /\ state'.final_answer = {text}
               /\ answer_out' = {text}
               /\ tool_calls' = tool_calls
               /\ (pc = "loop" /\ iteration = 0) => iteration' = 1
       /\ pc = "exited" => UNCHANGED <<infer_calls, tool_calls, state>>]_vars

\* Scenario A: the first generation is the final answer
C6_Witness ==
    /\ trace = <<"primary:Done">>
    /\ pc = "exited" /\ exit_code = 0 /\ iteration = 1 /\ infer_calls = 1
    /\ state.final_answer = {trim(AnswerText)}
    /\ trim(AnswerText) # AnswerText

\* C7: when every backend call and every execution returns, run_agent ends,
\* with exit code 0 or 1, after at most maxIterations primary iterations.
C7_Terminates ==
    /\ <>(pc = "exited")
    /\ [](pc = "exited" <=> exit_code \in {0, 1})
    /\ [](pc # "exited" <=> exit_code = Running)
    /\ [](iteration <= max_iterations)

\* a run that uses its whole budget and then ends
C7_Witness ==
    /\ max_iterations = MaxIterations
    /\ iteration = max_iterations
    /\ pc = "exited" /\ exit_code = 1 /\ diag.mode = "max_iterations"
    /\ retry_calls = max_iterations

LastEvent == IF trace = << >> THEN "" ELSE trace[Len(trace)]

\* C8: when maxIterations primary iterations are over and the run has not
\* ended, it ends with exit code 1 and the iteration-budget warning, making no
\* further call; that diagnostic is written in no other case; with
\* maxIterations = 0 no inference call is ever made.
C8_Exhaustion ==
    /\ [][(pc = "loop" /\ iteration = max_iterations)
             => /\ pc' = "exited" /\ exit_code' = 1
                /\ diag' = report_max_iterations
                /\ UNCHANGED <<infer_calls, tool_calls, state>>]_vars
    /\ [](diag.mode = "max_iterations"
             <=> (pc = "exited" /\ LastEvent = "exhausted"))
    /\ [](diag.mode = "max_iterations"
             => /\ iteration = max_iterations /\ ~state.is_complete
                /\ diag.mode \notin {"guardrail_failure", "inconclusive_after_retry",
                                     "inconclusive_after_guardrail"})
    /\ [](max_iterations = 0 => infer_calls = 0)

C8_Witness ==
    /\ max_iterations = 0
    /\ pc = "exited" /\ exit_code = 1 /\ diag = report_max_iterations
    /\ infer_calls = 0

\* C9 (Scenario B): a first generation InvokeTool whose outcome the chain
\* accepts, followed by a generation Done, ends the run with success after 2
\* iterations, with the history User query, Assistant tool call, Tool
\* outcome, Assistant answer.
C9_ScenarioB ==
    trace = <<"primary:InvokeTool", "tool:accept", "primary:Done">>
      => /\ pc = "exited" /\ exit_code = 0
         /\ iteration = 2 /\ infer_calls = 2 /\ tool_calls = 1 /\ guard_calls = 1
         /\ Len(state.history) = 4
         /\ [i \in 1..4 |-> state.history[i].role] = <<"User", "Assistant", "Tool", "Assistant">>
         /\ state.history[1].content = Query
         /\ parse_model_output(state.history[2].content).kind = "ToolCall"
         /\ LET r == last_apply.result
                c == state.history[3].content.lines
            IN /\ validated = {r}
               /\ r.success => c = << <<"Tool", "output:">> >> \o r.output.lines
               /\ ~r.success => SubSeq(c[1], 1, 2) = <<"Tool", "failed:">>
         /\ state.final_answer = {state.history[4].content}
         /\ answer_out = state.final_answer

C9_Witness ==
    /\ trace = <<"primary:InvokeTool", "tool:accept", "primary:Done">>
    /\ last_apply.result.success
    /\ Len(last_apply.result.output.lines) = 2

\* the validators that do not accept the context
Stops(gs, context) == {i \in 1..Len(gs) : ~guard_validate(gs[i], context).accept}

\* C10: GuardrailChain.validate invokes the validators in registration order
\* up to and including the first that rejects, returns that rejection and
\* invokes none after it; when none rejects it invokes every validator once,
\* in order, and returns Accept.
C10_ShortCircuit ==
    validated # {}
      => LET context == GuardrailContext(state, request, CHOOSE r \in validated : TRUE)
             stops == Stops(guards, context)
         IN IF stops = {}
            THEN verdict = Accept /\ invoked = [i \in 1..Len(guards) |-> i]
            ELSE LET k == CHOOSE i \in stops : \A j \in stops : i <= j IN
                 /\ verdict = guard_validate(guards[k], context)
                 /\ invoked = [i \in 1..k |-> i]

\* a 3-validator chain whose first validator rejects
C10_Witness ==
    /\ guards = <<"AlwaysReject", "NeverCalled", "plausibility_guard">>
    /\ validated # {}
    /\ verdict = Reject("first reject")
    /\ invoked = <<1>>

SkillSites == {"primary_skill", "reject_skill", "inconclusive_skill"}

ToolSites == {"primary_tool", "reject_tool", "inconclusive_tool"}

\* this step made a backend call that returned Err
BackendFails == infer_calls' = infer_calls + 1 /\ generated' = {}

\* this step made a call that returned Err
CallFails == trace' = Append(trace, "error")

LastMessage(st) == st.history[Len(st.history)]

C12_CallFailureIsFatal ==
    [][/\ BackendFails => CallFails
       /\ (pc \in ToolSites /\ request.name = "shell" /\ ~IsStrField(request.params, "command"))
            => CallFails
       /\ CallFails
            => /\ pc' = "exited" /\ exit_code' = 1
               /\ diag'.mode = "error"
               /\ state' = state
               /\ infer_calls' + tool_calls' = infer_calls + tool_calls + 1
       /\ pc = "exited" => UNCHANGED <<infer_calls, retry_calls, tool_calls, state>>]_vars

\* the backend fails inside a skill invoked by a corrective retry
C12_Witness ==
    /\ trace = <<"primary:Inconclusive", "retry:InvokeSkill", "error">>
    /\ pc = "exited" /\ exit_code = 1 /\ diag.mode = "error"
    /\ infer_calls = 3
    /\ Len(state.history) = 2 /\ LastMessage(state).role = "Assistant"

(* ------------- properties of the AgentState operations alone ----------- *)

LastCall == calls[Len(calls)]

\* C13: in every state reached from AgentState::new by add_message,
\* process_model_output and apply_tool_result, final_answer is present if and
\* only if is_complete is true.
C13_AnswerIffComplete == (state.final_answer # {}) <=> state.is_complete

\* a state completed by a final answer, and touched again afterwards
C13_Witness ==
    /\ state.is_complete /\ state.final_answer = {trim(AnswerText)}
    /\ op = "apply_tool_result"
    /\ Len(state.history) = 3

\* C14: once is_complete is true, add_message, apply_tool_result and
\* process_model_output leave the history, is_complete and final_answer as
\* they were.
C14_ImmutableOnceCompleted ==
    [][state.is_complete
          => /\ state'.history = state.history
             /\ state'.is_complete = state.is_complete
             /\ state'.final_answer = state.final_answer]_vars

\* C15: when process_model_output classifies an output as a final answer on
\* a state that is already complete, final_answer keeps its first value.
C15_FirstAnswerKept ==
    [][(state.is_complete /\ op' = "process_model_output" /\ LastCall'.decision.kind = "Done")
          => state'.final_answer = state.final_answer]_vars

\* C16: the history is append-only: an operation never shortens it and never
\* changes the index, role or content of a message already in it; it begins
\* with the User message of the query, and after it come the messages pushed,
\* in the order they were pushed.
C16_AppendOnly ==
    /\ [][/\ Len(state'.history) >= Len(state.history)
          /\ \A i \in 1..Len(state.history) : state'.history[i] = state.history[i]
          /\ op' = "add_message" => Len(state'.history) = Len(state.history) + 1]_vars
    /\ [](state.history = <<[role |-> "User", content |-> Query]>> \o appended)

\* MaxHistory - 1 messages appended through the three operations
C16_Witness ==
    /\ Len(appended) = MaxHistory - 1
    /\ Len(state.history) = MaxHistory
    /\ appended[1] \in HostMessages
    /\ appended[2].role = "Tool" /\ op = "apply_tool_result"

Decisions == {"InvokeTool", "InvokeSkill", "Done", "Inconclusive"}

Names(text, k, name) ==
    LET t == trim(text) IN
    /\ t.json = "object"
    /\ IsStrField(t.fields, k)
    /\ Get(t.fields, k).s = name

\* C18: a text whose trimmed form is a JSON object with `tool` naming the
\* shell tool is classified InvokeTool with that name and the other members
\* as parameters, whatever planning markers it holds and however short it is.
C18_ToolCallFirst ==
    \A i \in 1..Len(calls) :
       Names(calls[i].text, "tool", "shell")
          => LET d == calls[i].decision IN
             /\ d.kind = "InvokeTool"
             /\ d.kind \notin {"Inconclusive", "Done"}
             /\ d.request.name = "shell"
             /\ d.request.params = {f \in trim(calls[i].text).fields : f.k # "tool"}

\* a tool call shorter than 300 bytes with "i will" in its command
C18_Witness ==
    /\ calls # << >>
    /\ LastCall.text = ToolPlanText
    /\ is_inconclusive(trim(ToolPlanText))
    /\ LastCall.decision.kind = "InvokeTool"
    /\ Get(LastCall.decision.request.params, "command").s = "echo I will run"

SupportedTools == {"shell"}

\* the trimmed text is a JSON object with the discriminator k
HasDiscriminator(text, k) == trim(text).json = "object" /\ HasKey(trim(text).fields, k)

\* C20 as stated: an invocation is produced only for a supported action; a
\* JSON object whose `tool` or `skill` value names no supported action is
\* classified by the Inconclusive/Done rules.
C20_OnlySupportedActions ==
    \A i \in 1..Len(calls) :
       LET d == calls[i].decision IN
       /\ d.kind = "InvokeTool" => d.request.name \in SupportedTools
       /\ d.kind = "InvokeSkill" => d.request.name \in AvailableSkills
       /\ (HasDiscriminator(calls[i].text, "tool")
             /\ ~(\E n \in SupportedTools : Names(calls[i].text, "tool", n)))
            => d.kind \in {"Inconclusive", "Done"}

\* C20 amended: InvokeSkill is produced only for a supported skill, but
\* InvokeTool is produced for every JSON object whose `tool` value is a
\* string, whatever the name: an unsupported tool name is found at execution,
\* which yields the failed outcome "Unknown tool: <name>".  A `tool` value
\* that is not a string, and an unsupported `skill` value, are classified by
\* the Inconclusive/Done rules.
C20_AnyStringToolIsAction ==
    \A i \in 1..Len(calls) :
       LET d == calls[i].decision
           t == trim(calls[i].text)
       IN
       /\ d.kind = "InvokeTool" <=> (t.json = "object" /\ IsStrField(t.fields, "tool"))
       /\ d.kind = "InvokeSkill" => d.request.name \in AvailableSkills
       /\ (d.kind = "InvokeTool" /\ d.request.name \notin SupportedTools)
            => \A env \in ShellEnvs :
                  execute_tool(d.request, env) =
                     Ok(ToolResult_failure(Str("Unknown tool: " \o d.request.name)))
       /\ (HasDiscriminator(calls[i].text, "tool") /\ ~IsStrField(t.fields, "tool"))
            => d.kind = (IF is_inconclusive(t) THEN "Inconclusive" ELSE "Done")
       /\ (~HasDiscriminator(calls[i].text, "tool") /\ IsStrField(t.fields, "skill")
             /\ Get(t.fields, "skill").s \notin AvailableSkills)
            => d.kind = (IF is_inconclusive(t) THEN "Inconclusive" ELSE "Done")

\* an unsupported tool name classified as an invocation, after an
\* unsupported skill name classified by the planning markers
C20_Witness ==
    /\ Len(calls) = 2
    /\ calls[1].text = UnknownSkillPlanText /\ calls[1].decision.kind = "Inconclusive"
    /\ calls[2].text = UnknownToolText /\ calls[2].decision.kind = "InvokeTool"
    /\ calls[2].decision.request.name = "browser"

\* the length of a line in characters
RECURSIVE LineChars(_)
LineChars(l) ==
    IF l = << >> THEN 0
    ELSE Len(Head(l)) + (IF Len(l) > 1 THEN 1 ELSE 0) + LineChars(Tail(l))

\* the length of a trimmed text in characters
RECURSIVE LinesChars(_)
LinesChars(ls) ==
    IF ls = << >> THEN 0
    ELSE LineChars(Head(ls)) + (IF Len(ls) > 1 THEN 1 ELSE 0) + LinesChars(Tail(ls))

\* some line of the text holds, in any case, one of the planning markers
HasMarker(t) ==
    \E i \in 1..Len(t.lines) :
       \E ph \in planning_phrases : ContainsPhrase(LowerLine(t.lines[i]), ph)

NotAnAction(d) == d.kind \notin {"InvokeTool", "InvokeSkill"}

\* C21 as stated: a text that is not classified as an action is Inconclusive
\* exactly when it is shorter than 300 characters and holds a planning
\* marker, and Done otherwise.
C21_MarkerUnder300Characters ==
    \A i \in 1..Len(calls) :
       LET d == calls[i].decision
           t == trim(calls[i].text)
       IN NotAnAction(d)
            => /\ d.kind = "Inconclusive" <=> (LinesChars(t.lines) < 300 /\ HasMarker(t))
               /\ d.kind # "Inconclusive" => d.kind = "Done"

\* C21 amended: the same with the length taken in bytes of UTF-8: the text is
\* Inconclusive exactly when it is shorter than 300 bytes and holds a
\* planning marker, and Done otherwise, each with the trimmed text.
C21_MarkerUnder300Bytes ==
    \A i \in 1..Len(calls) :
       LET d == calls[i].decision
           t == trim(calls[i].text)
       IN NotAnAction(d)
            => /\ d.kind = "Inconclusive" <=> (LinesLen(t.lines) < 300 /\ HasMarker(t))
               /\ d.kind # "Inconclusive" => d.kind = "Done"
               /\ d.text = t

\* "I will ..." of 299 bytes is Inconclusive, of 300 bytes Done
C21_Witness ==
    /\ Len(calls) = 2
    /\ calls[1].text = PlanTextOfLen("ab") /\ LinesLen(calls[1].text.lines) = 299
    /\ calls[1].decision.kind = "Inconclusive"
    /\ calls[2].text = PlanTextOfLen("abc") /\ LinesLen(calls[2].text.lines) = 300
    /\ calls[2].decision.kind = "Done"

\* the text parses as JSON and holds no action
ParsesWithoutAction(text) ==
    LET t == trim(text) IN
    /\ t.json # "invalid"
    /\ \/ t.json = "other"
       \/ ~HasKey(t.fields, "tool") /\ ~HasKey(t.fields, "skill")
       \/ HasKey(t.fields, "tool") /\ ~IsStrField(t.fields, "tool")

\* C22: a text that parses as JSON but cannot be turned into an action (no
\* `tool` or `skill` member, or a `tool` member that is not a string) yields
\* no error: it is classified by the planning-marker rule, Inconclusive or
\* Done, and only a Done is recorded in the state.
C22_JsonFallsThrough ==
    \A i \in 1..Len(calls) :
       ParsesWithoutAction(calls[i].text)
          => LET d == calls[i].decision
                 t == trim(calls[i].text)
             IN /\ d.kind = (IF LinesLen(t.lines) < 300 /\ HasMarker(t)
                             THEN "Inconclusive" ELSE "Done")
                /\ d.text = t
                /\ d.kind = "Inconclusive" => calls[i].after = calls[i].state
                /\ d.kind = "Done" => calls[i].after.final_answer = {t}

\* {"tool":["shell"],...} with a marker, then {"result":"some data"}
C22_Witness ==
    /\ Len(calls) = 2
    /\ calls[1].text = NonStringToolPlanText /\ calls[1].decision.kind = "Inconclusive"
    /\ calls[2].text = NoDiscriminatorText /\ calls[2].decision.kind = "Done"

(* -------------------- properties of PlausibilityGuard ------------------ *)

\* the chain run_agent builds, asked about the result r
GuardAsked(r) == guards = <<"plausibility_guard">> /\ validated = {r}

\* C23: PlausibilityGuard accepts every outcome with success = false,
\* whatever its output and error fields hold.
C23_FailedOutcomeAccepted ==
    \A r \in validated :
       (guards = <<"plausibility_guard">> /\ ~r.success) => verdict = Accept

\* a failed outcome whose output, had it succeeded, would be rejected
C23_Witness ==
    /\ GuardAsked([success |-> FALSE, output |-> PlainText(<< <<"total", "123">> >>), error |-> {}])
    /\ verdict = Accept
    /\ invoked = <<1>>

\* the output is empty or whitespace only
Blank(out) == trim(out).lines = << >>

\* the output is one line: "total", in any case, and one token of digits
TotalLine(out) ==
    LET ls == trim(out).lines IN
    /\ Len(ls) = 1
    /\ Len(ls[1]) = 2
    /\ to_lowercase(ls[1][1]) = "total"
    /\ AllDigits(ls[1][2])

NoAlphanumeric(out) ==
    \A i \in 1..Len(out.lines) : \A j \in 1..Len(out.lines[i]) : ~AnyAlphanumeric(out.lines[i][j])

\* C24 as stated: an outcome with success = true is rejected exactly when its
\* output is blank, or is a "total <number>" line alone, or is, trimmed,
\* shorter than 3 characters or without an alphanumeric character; otherwise
\* it is accepted.
C24_RejectsUnder3Characters ==
    \A r \in validated :
       (guards = <<"plausibility_guard">> /\ r.success)
          => /\ is_reject(verdict)
                  <=> \/ Blank(r.output)
                      \/ TotalLine(r.output)
                      \/ LinesChars(trim(r.output).lines) < 3
                      \/ NoAlphanumeric(r.output)
             /\ ~is_reject(verdict) => verdict = Accept

\* C24 amended: the same with the length taken in bytes of UTF-8: rejected
\* exactly when the output is blank, or a "total <number>" line alone, or,
\* trimmed, shorter than 3 bytes or without an alphanumeric character.
C24_RejectsUnder3Bytes ==
    \A r \in validated :
       (guards = <<"plausibility_guard">> /\ r.success)
          => /\ is_reject(verdict)
                  <=> \/ Blank(r.output)
                      \/ TotalLine(r.output)
                      \/ LinesLen(trim(r.output).lines) < 3
                      \/ NoAlphanumeric(r.output)
             /\ ~is_reject(verdict) => verdict = Accept
             /\ Blank(r.output) => verdict = Reject(ReasonEmpty)
             /\ TotalLine(r.output) => verdict = Reject(ReasonMetadata)

\* a "total 8" line followed by a file line is accepted
C24_Witness ==
    /\ GuardAsked(ToolResult_success(
          PlainText(<< <<"total", "8">>,
                       <<"-rw-r--r--", "1", "user", "group", "1234", "file.txt">> >>)))
    /\ verdict = Accept

(* ---------------------- properties of tool outcomes --------------------- *)

\* the outcomes execute_tool has handed to run_agent: the one validated
\* last and the one applied last
Outcomes == validated \cup (IF last_apply.site = "" THEN {} ELSE {last_apply.result})

\* C25: every outcome the tool executor produces has no error when success
\* is true and an empty output when success is false.
C25_OutcomeWellFormed ==
    \A r \in Outcomes :
       /\ r.success => r.error = {}
       /\ ~r.success => r.output = EmptyText

\* a command that succeeded with two lines of output, then one that failed
\* with a message on its standard error
C25_Witness ==
    /\ \E r \in validated : r.success /\ Len(r.output.lines) = 2
    /\ last_apply.site = "inconclusive_tool"
    /\ ~last_apply.result.success
    /\ last_apply.result.error = {Str("ls: cannot access")}

(* ------------------- properties of the rendered prompt ------------------ *)

HasSchema(p) == \E i \in DOMAIN p : p[i] = SchemaPart

\* a tool outcome was applied to the conversation: accepted by the chain,
\* or returned by the tool of an inconclusive retry
ToolApplied(t) == \E i \in DOMAIN t : t[i] \in {"tool:accept", "tool:applied"}

\* C26 as stated: a prompt rendered by before_llm_call holds the response
\* schema only if some earlier tool execution returned success = true.
C26_SchemaOnlyAfterSuccess ==
    [][prompt' # prompt /\ HasSchema(prompt') => \E r \in executed : r.success]_vars

\* C26: a prompt rendered by before_llm_call holds the response schema only
\* if a tool outcome was applied to the conversation before, whatever its
\* success flag; skill executions and rejected tool executions do not
\* enable it.
C26_SchemaOnlyAfterToolApplied ==
    [][prompt' # prompt /\ HasSchema(prompt') => ToolApplied(trace) /\ executed # {}]_vars

\* a prompt with the schema rendered when the only tool execution failed
C26_Witness ==
    /\ HasSchema(prompt)
    /\ executed # {}
    /\ \A r \in executed : ~r.success

\* a prompt without the schema rendered after a skill execution and a
\* rejected tool execution
C26_WitnessNotEnabled ==
    /\ ~HasSchema(prompt)
    /\ Len(prompt) > 3
    /\ \E i \in DOMAIN trace : trace[i] = "tool:reject"

(* ------------------- properties of the extraction skill ----------------- *)

\* the step of the pipeline that fails first for a request to the extraction
\* skill and an answer of the backend: 0 when every step passes
FirstFailing(req, llm) ==
    IF InputError(req) # "" THEN 1
    ELSE LET text == Get(req.params, "text").s
             target == str_lower(Get(req.params, "target").s)
         IN IF ~llm.ok THEN 3
            ELSE IF parse_skill_output(llm.text, target) # "" THEN 4
            ELSE IF validate_extraction_output(text, trim(llm.text), target) # "" THEN 5
            ELSE 0

\* C27: the skill pipeline runs validate input, build prompt, invoke backend,
\* parse output, validate output in that order and stops at the first step
\* that fails; with an invalid input or an unknown skill the backend is not
\* invoked; the result is success exactly when every step passed, and then
\* it carries the parsed output; a failure carries no output.
C27_PipelineShortCircuits ==
    skill_call.fn = "execute_skill" =>
       LET req == skill_call.req
           llm == skill_call.llm
           r == skill_call.ret
           known == req.name = "extract"
           failing == IF known THEN FirstFailing(req, llm) ELSE 1
       IN /\ r.steps = SubSeq(Pipeline, 1, Len(r.steps))
          /\ known => r.steps = (IF failing = 0 THEN Pipeline ELSE SubSeq(Pipeline, 1, failing))
          /\ ~known => r.steps = << >>
          /\ (~known \/ InputError(req) # "") =>
                /\ ~r.inferred
                /\ \A i \in DOMAIN r.steps : r.steps[i] # "infer"
                /\ r.ok /\ ~r.result.success
          /\ r.ok <=> ~(known /\ failing = 3)
          /\ (r.ok /\ r.result.success) <=> (known /\ failing = 0)
          /\ (r.ok /\ r.result.success) =>
                r.result.output = {trim(llm.text)} /\ r.result.error = {}
          /\ ~r.result.success => r.result.output = {}

\* an unknown target with a backend that would have answered: the backend
\* is not invoked
C27_Witness ==
    /\ skill_call.fn = "execute_skill"
    /\ skill_call.req.name = "extract"
    /\ IsStrField(skill_call.req.params, "target")
    /\ Get(skill_call.req.params, "target").s = "phone"
    /\ skill_call.llm.ok
    /\ skill_call.ret.steps = <<"validate_input">>
    /\ ~skill_call.ret.result.success

\* every step passes: the result carries the parsed output
C27_WitnessSuccess ==
    /\ skill_call.fn = "execute_skill"
    /\ skill_call.ret.steps = Pipeline
    /\ skill_call.ret.result.success
    /\ skill_call.llm.text.pad

\* the targets whose field holds a string or an array of strings
StringTargets == {"email", "url", "date"}

\* s is, case-insensitively, a substring of the source text
Grounded(text, s) == str_contains(str_lower(text), str_lower(s))

\* C28: for email, url and date, validate_extraction_output returns Ok only
\* if every extracted string is, case-insensitively, a substring of the
\* source text; otherwise it returns HallucinationDetected with the first
\* extracted value, in output order, that is not.
C28_StringsGrounded ==
    (/\ skill_call.fn = "validate_extraction_output"
     /\ skill_call.target \in StringTargets
     /\ HasKey(skill_call.output.fields, skill_call.target)) =>
       LET items == ExtractedItems(Get(skill_call.output.fields, skill_call.target))
           absent == {i \in DOMAIN items : ~Grounded(skill_call.text, items[i])}
       IN /\ skill_call.ret = "" <=> absent = {}
          /\ \A i \in absent :
                (\A j \in absent : i <= j) => skill_call.ret = HallucinationDetected(items[i])

\* three addresses of which the second and the third are not in the text:
\* the second is reported
C28_Witness ==
    /\ skill_call.fn = "validate_extraction_output"
    /\ skill_call.target = "email"
    /\ skill_call.text = "Contact us at hello@agent.rs"
    /\ HasKey(skill_call.output.fields, "email")
    /\ Get(skill_call.output.fields, "email").items
          = <<"hello@agent.rs", "fake@example.com", "bob@evil.com">>
    /\ skill_call.ret = HallucinationDetected("fake@example.com")

\* an address that differs from the text in case only is accepted
C28_WitnessCase ==
    /\ skill_call.fn = "validate_extraction_output"
    /\ skill_call.target = "email"
    /\ skill_call.text = "Contact us at hello@agent.rs"
    /\ HasKey(skill_call.output.fields, "email")
    /\ Get(skill_call.output.fields, "email").items = <<"Hello@Agent.rs">>
    /\ skill_call.ret = ""

\* the strings of the arrays of an entity, in the order people,
\* organizations, locations
EntityValues(parsed) ==
    EntityItems(parsed, "people") \o EntityItems(parsed, "organizations")
    \o EntityItems(parsed, "locations")

\* one of the whitespace-separated tokens of s is, case-insensitively, a
\* substring of the source text
TokenGrounded(text, s) ==
    \E k \in DOMAIN split_whitespace(s) : Grounded(text, split_whitespace(s)[k])

\* C29: for the entity target, each string of the arrays under people,
\* organizations and locations is accepted if and only if one of its
\* whitespace-separated tokens is, case-insensitively, a substring of the
\* source text; the first value (in that order) none of whose tokens occurs,
\* a value with no token included, yields HallucinationDetected(value).
C29_EntityTokensGrounded ==
    (/\ skill_call.fn = "validate_extraction_output"
     /\ skill_call.target = "entity"
     /\ HasKey(skill_call.output.fields, "entity")) =>
       LET values == EntityValues(skill_call.output)
           absent == {i \in DOMAIN values : ~TokenGrounded(skill_call.text, values[i])}
       IN /\ skill_call.ret = "" <=> absent = {}
          /\ \A i \in absent :
                (\A j \in absent : i <= j) => skill_call.ret = HallucinationDetected(values[i])
          /\ \A i \in DOMAIN values : split_whitespace(values[i]) = << >> => i \in absent

\* a two-word name one of whose words is in the text is accepted
C29_Witness ==
    /\ skill_call.fn = "validate_extraction_output"
    /\ skill_call.target = "entity"
    /\ skill_call.text = "Alice met Bob at Acme in Paris"
    /\ EntityItems(skill_call.output, "people") = <<"Alice Smith">>
    /\ ~Grounded(skill_call.text, "Alice Smith")
    /\ skill_call.ret = ""

\* a value with no token is rejected
C29_WitnessNoToken ==
    /\ skill_call.fn = "validate_extraction_output"
    /\ skill_call.target = "entity"
    /\ skill_call.text = "Alice met Bob at Acme in Paris"
    /\ EntityItems(skill_call.output, "locations") = <<"Paris", "">>
    /\ skill_call.ret = HallucinationDetected("")

\* the enumerated target set as the skill's contract and the agent's
\* system prompt give it
AdvertisedTargets == {"email", "url", "date", "entity", "name"}

\* C30: ExtractionInput::validate returns EmptyInput whenever the text is
\* empty, also with an invalid target; InvalidTarget(name) when the text is
\* not empty and the target is not in the enumerated set; and otherwise the
\* target: each of email, url, date, entity and name is accepted,
\* case-insensitively.
C30_ValidateInput ==
    skill_call.fn = "validate" =>
       LET text == skill_call.text
           target == skill_call.target
           r == skill_call.ret
       IN /\ text = "" => ~r.ok /\ r.err = EmptyInput
          /\ (text # "" /\ str_lower(target) \notin AdvertisedTargets) =>
                ~r.ok /\ r.err = InvalidTarget(target)
          /\ (text # "" /\ str_lower(target) \in AdvertisedTargets) =>
                r.ok /\ r.target = str_lower(target)

MalformedOutput(msg) == "MalformedOutput: " \o msg

SchemaViolation(msg) == "SchemaViolation: " \o msg

\* C31: parse_skill_output returns MalformedOutput when the trimmed text is
\* not valid JSON or is not a JSON object, SchemaViolation when it is an
\* object without a field named after the target, and otherwise the parsed
\* object unchanged; MalformedOutput comes before SchemaViolation.
C31_ParseOutput ==
    skill_call.fn = "parse_skill_output" =>
       LET t == trim(skill_call.raw)
           r == skill_call.ret
           missing == ~\E f \in t.fields : f.k = skill_call.target
       IN /\ t.json = "invalid" => r.err = MalformedOutput("invalid JSON")
          /\ t.json = "other" => r.err = MalformedOutput("output must be a JSON object")
          /\ (t.json = "object" /\ missing) =>
                r.err = SchemaViolation("output missing '" \o skill_call.target \o "' field")
          /\ (t.json = "object" /\ ~missing) =>
                /\ r.err = ""
                /\ \E o \in r.result :
                      r.result = {o} /\ o.json = "object" /\ o.fields = skill_call.raw.fields
          /\ r.err # "" => r.result = {}

\* a text that is no JSON and so has no field named after the target either:
\* MalformedOutput is returned
C31_Witness ==
    /\ skill_call.fn = "parse_skill_output"
    /\ skill_call.raw = Str("Sure!")
    /\ skill_call.target = "email"
    /\ skill_call.ret.err = MalformedOutput("invalid JSON")

\* an object within whitespace that holds the target field is returned
C31_WitnessParsed ==
    /\ skill_call.fn = "parse_skill_output"
    /\ skill_call.raw.pad
    /\ skill_call.target = "entity"
    /\ skill_call.ret.err = ""
    /\ \E o \in skill_call.ret.result : HasKey(o.fields, "entity.people")

(* ------------------- properties of the process boundary ---------------- *)

EndsWith(t, suffix) ==
    Len(t) >= Len(suffix) /\ SubSeq(t, Len(t) - Len(suffix) + 1, Len(t)) = suffix

\* Terminated(Success): a generation was classified Done
Succeeded == pc = "exited" /\ LastEvent \in {"primary:Done", "retry:Done"}

\* the three failure modes, as the events of the session show them
DoubleRejection == pc = "exited" /\ EndsWith(trace, <<"tool:reject", "retry:InvokeTool", "tool:reject">>)

InconclusiveAfterRetry ==
    pc = "exited" /\ EndsWith(trace, <<"primary:Inconclusive", "retry:Inconclusive">>)

Exhaustion == pc = "exited" /\ LastEvent = "exhausted"

\* the text of the retry that ended the session
RetryText == trim(CHOOSE t \in generated : TRUE)

\* what C32 says of exit codes and of which diagnostic each failure mode writes
ExitCodesAndModes ==
    /\ pc # "exited" => exit_code = Running
    /\ pc = "exited" =>
          /\ exit_code = 0 <=> Succeeded
          /\ ~Succeeded => exit_code = 1
          /\ Succeeded => diag = NoDiag /\ answer_out = state.final_answer
          /\ DoubleRejection <=> diag.mode = "guardrail_failure"
          /\ InconclusiveAfterRetry <=> diag.mode = "inconclusive_after_retry"
          /\ Exhaustion <=> diag.mode = "max_iterations"
          /\ DoubleRejection => diag.reasons = <<reason, verdict.reason>> /\ is_reject(verdict)
          /\ Exhaustion => diag = report_max_iterations

ReturnsEmptySuccess ==
    /\ pc \in ToolSites
    /\ tool_calls' = tool_calls + 1
    /\ \/ guard_calls' = guard_calls + 1 /\ validated' = {ToolResult_success(EmptyText)}
       \/ pc = "inconclusive_tool" /\ last_apply' # last_apply
          /\ last_apply'.result = ToolResult_success(EmptyText)

\* C33: a shell command that succeeds with empty output yields an outcome
\* that is taken as valid: it is appended to the history as a Tool message
\* and the loop goes on without a corrective retry.
C33_EmptyOutputValid ==
    [][ReturnsEmptySuccess
          => /\ AppendsToolOutcome
             /\ pc' = "loop"
             /\ retry_calls' = retry_calls]_vars

\* the texts of the backend that are classified Inconclusive
InconclusiveTexts == {t \in ModelOutputs : parse_model_output(t).kind = "Inconclusive"}

\* C34: a generation that process_model_output classifies Inconclusive
\* leaves the state as it was (history, is_complete, final_answer), so no
\* inconclusive text, of a primary generation or of a retry, is ever in the
\* history of run_agent.
C34_InconclusiveLeavesState ==
    /\ [][(pc \in GenerationSites /\ GeneratedKind = "Inconclusive") => state' = state]_vars
    /\ [](\A i \in DOMAIN state.history :
             /\ \A t \in InconclusiveTexts : state.history[i].content \notin {t, trim(t)}
             /\ state.history[i].role = "Assistant"
                   => parse_model_output(state.history[i].content).kind # "Inconclusive")

\* a primary generation and its retry both inconclusive, after a tool call
\* was accepted: the history holds neither text
C34_Witness ==
    /\ trace = <<"primary:InvokeTool", "tool:accept", "primary:Inconclusive", "retry:Inconclusive">>
    /\ output = PlanText2
    /\ Len(state.history) = 3
    /\ InconclusiveTexts # {}

\* the text of the error of a failed result, "unknown error" when it has none
ErrorText(result) == IF result.error = {} THEN "unknown error"
                     ELSE (CHOOSE e \in result.error : TRUE).lines[1][1]

\* C35: apply_tool_result appends exactly one message, of role Tool, and
\* changes nothing else; its content is "Tool output:\n" and the output for a
\* success, "Tool failed: " and the error, or "unknown error" when there is
\* none, for a failure.
C35_ApplyToolResult ==
    [][op' = "apply_tool_result" =>
          LET r == last_apply'.result
              m == LastMessage(state')
          IN /\ state'.history = Append(state.history, m)
             /\ state'.is_complete = state.is_complete
             /\ state'.final_answer = state.final_answer
             /\ m.role = "Tool"
             /\ r.success => m.content.lines = << <<"Tool", "output:">> >> \o r.output.lines
             /\ ~r.success => m.content.lines = << <<"Tool", "failed:", ErrorText(r)>> >>]_vars

\* a failure with an error, applied to a state that was complete already
C35_Witness ==
    /\ op = "apply_tool_result"
    /\ ~last_apply.result.success
    /\ last_apply.result.error = {Str("Command rejected by user")}
    /\ LastMessage(state).content.lines = << <<"Tool", "failed:", "Command rejected by user">> >>
    /\ state.is_complete

\* a failure without an error
C35_WitnessUnknown ==
    /\ op = "apply_tool_result"
    /\ ~last_apply.result.success
    /\ last_apply.result.error = {}
    /\ LastMessage(state).content.lines = << <<"Tool", "failed:", "unknown error">> >>

\* the messages of a history that have a role
Count(history, role) == Cardinality({i \in DOMAIN history : history[i].role = role})

\* the events of a session that append a Tool message
Appending(t) ==
    Cardinality({i \in DOMAIN t : t[i] \in {"tool:accept", "tool:applied", "skill:ok", "skill:failed"}})

\* this step had an outcome rejected by the guardrail chain
Rejects == guard_calls' = guard_calls + 1 /\ is_reject(verdict')

\* C36: an outcome the guardrail chain rejects is never appended to the
\* history: the rejection leaves the history ending with the Assistant
\* message of the rejected call, the message that follows it is never a Tool
\* message, and every Tool message of the history stands for an outcome that
\* was accepted, applied unvalidated, or a skill's; this holds whether the
\* corrective retry succeeds or fails.
C36_RejectedNeverAppended ==
    /\ [][/\ Rejects =>
               /\ state' = state
               /\ LastMessage(state).role = "Assistant"
               /\ parse_model_output(LastMessage(state).content).kind = "ToolCall"
               /\ LastEvent' = "tool:reject"
          /\ pc = "reject_retry" =>
               \/ state' = state
               \/ /\ Len(state'.history) = Len(state.history) + 1
                  /\ state'.history = Append(state.history, LastMessage(state'))
                  /\ LastMessage(state').role = "Assistant"
          /\ pc = "exited" => state' = state]_vars
    /\ [](Count(state.history, "Tool") = Appending(trace))

\* a rejection whose retry is a tool call that is accepted: one Tool message
\* only, after the second Assistant message
C36_Witness ==
    /\ trace = <<"primary:InvokeTool", "tool:reject", "retry:InvokeTool", "tool:accept">>
    /\ Len(state.history) = 4
    /\ state.history[2].role = "Assistant"
    /\ state.history[3].role = "Assistant"
    /\ state.history[4].role = "Tool"

\* a rejection whose retry is rejected as well: no Tool message at all
C36_WitnessDouble ==
    /\ DoubleRejection
    /\ Count(state.history, "Tool") = 0
    /\ Count(state.history, "Assistant") = 2

\* C37: in run_agent is_complete is true only when the loop has ended with
\* success, and then the last message is the Assistant's and holds
\* final_answer; every failure leaves is_complete false and final_answer
\* absent; no message is appended once is_complete is true.
C37_CompleteOnlyOnSuccess ==
    /\ [](/\ state.is_complete <=> (pc = "exited" /\ exit_code = 0)
          /\ state.is_complete =>
                /\ Succeeded
                /\ LastMessage(state).role = "Assistant"
                /\ state.final_answer = {LastMessage(state).content}
                /\ answer_out = state.final_answer
          /\ ~state.is_complete => state.final_answer = {}
          /\ (pc = "exited" /\ ~Succeeded) =>
                exit_code = 1 /\ ~state.is_complete /\ state.final_answer = {})
    /\ [][state.is_complete => state'.history = state.history]_vars

\* a session that ends with success after a tool call
C37_Witness ==
    /\ state.is_complete
    /\ trace = <<"primary:InvokeTool", "tool:accept", "primary:Done">>
    /\ state.final_answer = {trim(AnswerText)}
    /\ Len(state.history) = 4

\* a session that fails after messages were appended
C37_WitnessFailure ==
    /\ pc = "exited" /\ exit_code = 1
    /\ Len(state.history) = 5
    /\ ~state.is_complete

\* C38: in run_agent the history starts with the User message of the query
\* and holds no other User message, and every Tool message comes right
\* after an Assistant message, never after a Tool message or the User
\* message.
C38_HistoryShape ==
    /\ Len(state.history) >= 1
    /\ state.history[1] = [role |-> "User", content |-> Query]
    /\ \A i \in DOMAIN state.history :
          /\ state.history[i].role = "User" => i = 1
          /\ state.history[i].role = "Tool" => i > 1 /\ state.history[i - 1].role = "Assistant"

\* two Tool messages and three Assistant messages, one of them the call
\* whose outcome was rejected
C38_Witness ==
    /\ Len(state.history) = 6
    /\ Count(state.history, "Tool") = 2
    /\ Count(state.history, "Assistant") = 3
    /\ \E i \in DOMAIN trace : trace[i] = "tool:reject"

(* ------------------- properties of the calls made ----------------------- *)

\* C39: within one primary iteration run_agent makes at most 3 inference
\* calls (primary, corrective retry, skill extraction), at most 2 tool
\* executions and at most 2 chain validations; so a session makes at most
\* 3 * maxIterations inference calls and 2 * maxIterations tool executions.
C39_CallsPerIteration ==
    /\ infer_calls - iter_start.infer <= 3
    /\ tool_calls - iter_start.tools <= 2
    /\ guard_calls - iter_start.guards <= 2
    /\ iteration <= max_iterations
    /\ infer_calls <= 3 * max_iterations
    /\ tool_calls <= 2 * max_iterations
    /\ iteration = 0 => infer_calls = 0 /\ tool_calls = 0 /\ guard_calls = 0

\* every iteration made a primary generation, a corrective retry and a skill
\* extraction
C39_Witness ==
    /\ max_iterations >= 2
    /\ iteration = max_iterations
    /\ infer_calls = 3 * max_iterations
    /\ infer_calls - iter_start.infer = 3

\* one iteration with two tool executions and two validations
C39_WitnessTools ==
    /\ iteration >= 1
    /\ tool_calls - iter_start.tools = 2
    /\ guard_calls - iter_start.guards = 2

\* the request about to be executed is one for the shell without a string
\* `command`
MissingCommand ==
    pc \in ToolSites /\ request.name = "shell" /\ ~IsStrField(request.params, "command")

\* the request about to be executed names a tool that does not exist
UnknownTool == pc \in ToolSites /\ request.name # "shell"

\* C40: a tool call for the shell whose parameters hold no string `command`
\* ends the session with an error: no Tool message is appended, no
\* corrective retry is made and no iteration follows; a call of an unknown
\* tool yields a failed outcome, which is appended, and the loop goes on.
C40_MissingCommandIsFatal ==
    [][/\ (pc \in GenerationSites /\ generated' = {NoCommandText})
            => pc' \in ToolSites /\ request' = ToolRequestOf(NoCommandText.fields)
       /\ MissingCommand
            => /\ pc' = "exited" /\ exit_code' = 1
               /\ diag' = report_error("Missing 'command' parameter")
               /\ state' = state
               /\ UNCHANGED <<guard_calls, retry_calls, infer_calls, iteration, last_apply>>
       /\ UnknownTool
            => /\ AppendsToolOutcome
               /\ LastMessage(state').content.lines
                     = << <<"Tool", "failed:", "Unknown tool: " \o request.name>> >>
               /\ pc' = "loop" /\ exit_code' = Running
               /\ retry_calls' = retry_calls
       /\ pc = "exited"
            => UNCHANGED <<infer_calls, retry_calls, tool_calls, iteration, state>>]_vars

\* the first generation asks for the shell without a command, with
\* iterations to spare: the session ends there
C40_Witness ==
    /\ max_iterations = 2 /\ iteration = 1
    /\ trace = <<"primary:InvokeTool", "error">>
    /\ pc = "exited" /\ exit_code = 1
    /\ diag = report_error("Missing 'command' parameter")
    /\ Len(state.history) = 2
    /\ tool_calls = 1 /\ guard_calls = 0

\* an unknown tool, then another iteration
C40_WitnessUnknown ==
    /\ iteration = 2
    /\ Len(state.history) >= 3
    /\ state.history[3].content.lines = << <<"Tool", "failed:", "Unknown tool: browser">> >>

====
